---- MODULE Spec2Model ----
(***************************************************************************)
(* Model of the font utilities of scripts/: the style-name derivation and  *)
(* the batch run of normalize_font_names.py, the batch runs of             *)
(* convert_woff2_to_ttf.py and organize_fonts_by_family.py with their      *)
(* grouping by family, and the two worker pools of font_manager.py.        *)
(*                                                                         *)
(* Python strings are modelled as sequences of one-character strings, so   *)
(* that str.replace, str.strip and f-string formatting are computed on the *)
(* characters and not assumed.                                             *)
(***************************************************************************)
EXTENDS Integers, Sequences, FiniteSets, TLC

(***************************************************************************)
(* Bounds of the model.                                                    *)
(***************************************************************************)
\* weights range over -WeightMargin .. 1000 + WeightMargin
WeightMargin == 20
\* largest number of candidate files found by the glob in one batch
MaxFonts == 3
\* number of entries of FONT_MAPPING that font_manager submits to its pools
NumTasks == 2
\* largest value of --max-workers
MaxWorkers == 2

(***************************************************************************)
(* String literals of the source, as character sequences.                  *)
(***************************************************************************)
SP == <<" ">>
DASH == <<"-">>
Thin == <<"T", "h", "i", "n">>
ExtraLight == <<"E", "x", "t", "r", "a", "L", "i", "g", "h", "t">>
Light == <<"L", "i", "g", "h", "t">>
Regular == <<"R", "e", "g", "u", "l", "a", "r">>
Medium == <<"M", "e", "d", "i", "u", "m">>
SemiBold == <<"S", "e", "m", "i", "B", "o", "l", "d">>
Bold == <<"B", "o", "l", "d">>
ExtraBold == <<"E", "x", "t", "r", "a", "B", "o", "l", "d">>
Black == <<"B", "l", "a", "c", "k">>
Italic == <<"I", "t", "a", "l", "i", "c">>
DotTtf == <<".", "t", "t", "f">>
DotOtf == <<".", "o", "t", "f">>

(***************************************************************************)
(* Python string operations used by the scripts.                           *)
(***************************************************************************)
\* str.replace(" ", "")
RemoveSpaces(s) == SelectSeq(s, LAMBDA c : c # " ")

\* str.lstrip() / str.rstrip() / str.strip() on the blank character
RECURSIVE LStrip(_)
LStrip(s) == IF s # <<>> /\ Head(s) = " " THEN LStrip(Tail(s)) ELSE s

RECURSIVE RStrip(_)
RStrip(s) ==
    IF s # <<>> /\ s[Len(s)] = " " THEN RStrip(SubSeq(s, 1, Len(s) - 1)) ELSE s

Strip(s) == RStrip(LStrip(s))

\* str(n) of a non-negative integer, as the f-string formats a counter
DigitChar(d) ==
    CASE d = 0 -> "0" [] d = 1 -> "1" [] d = 2 -> "2" [] d = 3 -> "3"
      [] d = 4 -> "4" [] d = 5 -> "5" [] d = 6 -> "6" [] d = 7 -> "7"
      [] d = 8 -> "8" [] d = 9 -> "9"

RECURSIVE IntToStr(_)
IntToStr(n) ==
    IF n < 10 THEN <<DigitChar(n)>>
    ELSE IntToStr(n \div 10) \o <<DigitChar(n % 10)>>

Abs(x) == IF x < 0 THEN -x ELSE x

(***************************************************************************)
(* A font as the font library exposes it to normalize_font_names.py.       *)
(*   loads         TTFont(path) returns (FALSE: it raises)                 *)
(*   hasOS2        the OS/2 table is present and its fields can be read    *)
(*                 (font["OS/2"].usWeightClass, .fsSelection do not raise) *)
(*   usWeightClass OS/2.usWeightClass                                      *)
(*   fsSelection   OS/2.fsSelection  (bit 0x01 italic, bit 0x20 bold)      *)
(*   hasHead       the head table is present and macStyle can be read      *)
(*   macStyle      head.macStyle     (bit 0x01 bold, bit 0x02 italic)      *)
(*   cff           "CFF " or "CFF2" is in the font                         *)
(*   hasName       the name table is present (font["name"] does not raise) *)
(***************************************************************************)
MkFont(w, fs, hd, mac, c) ==
    [loads |-> TRUE, hasOS2 |-> TRUE, usWeightClass |-> w, fsSelection |-> fs,
     hasHead |-> hd, macStyle |-> mac, cff |-> c, hasName |-> TRUE]

\* a font without OS/2 table
MkFontNoOS2(hd, mac, c) ==
    [loads |-> TRUE, hasOS2 |-> FALSE, usWeightClass |-> 0, fsSelection |-> 0,
     hasHead |-> hd, macStyle |-> mac, cff |-> c, hasName |-> TRUE]

\* a file the font library cannot parse
CorruptFont ==
    [loads |-> FALSE, hasOS2 |-> FALSE, usWeightClass |-> 0, fsSelection |-> 0,
     hasHead |-> FALSE, macStyle |-> 0, cff |-> FALSE, hasName |-> FALSE]

\* x & mask # 0 for a one-bit mask
BitSet(x, mask) == (x \div mask) % 2 = 1

(***************************************************************************)
(* normalize_font_names.py: is_italic, is_bold                             *)
(***************************************************************************)
\* mutant: the legacy bitfield is tested at its bold bit (0x01)
is_italic_bold_bit(font) ==
    IF font.hasOS2 /\ BitSet(font.fsSelection, 1) THEN TRUE
    ELSE IF font.hasHead /\ BitSet(font.macStyle, 1) THEN TRUE
    ELSE FALSE

is_italic(font) ==
    IF font.hasOS2 /\ BitSet(font.fsSelection, 1) THEN TRUE
    ELSE IF font.hasHead /\ BitSet(font.macStyle, 2) THEN TRUE
    ELSE FALSE

is_bold(font) ==
    IF font.hasOS2 /\ BitSet(font.fsSelection, 32) THEN TRUE
    ELSE IF font.hasOS2 /\ font.usWeightClass >= 700 THEN TRUE
    ELSE FALSE

(***************************************************************************)
(* normalize_font_names.py: weight_to_name                                 *)
(***************************************************************************)
bins ==
    << <<100, Thin>>, <<200, ExtraLight>>, <<300, Light>>, <<400, Regular>>,
       <<500, Medium>>, <<600, SemiBold>>, <<700, Bold>>, <<800, ExtraBold>>,
       <<900, Black>> >>

\* mutant: the scan keeps the last minimal element
RECURSIVE MinByDistanceLast(_, _, _)
MinByDistanceLast(seq, best, weight) ==
    IF seq = <<>> THEN best
    ELSE MinByDistanceLast(Tail(seq),
                           IF Abs(Head(seq)[1] - weight) <= Abs(best[1] - weight)
                           THEN Head(seq) ELSE best,
                           weight)

\* min(seq, key=...) of Python: one scan, the first minimal element is kept
RECURSIVE MinByDistance(_, _, _)
MinByDistance(seq, best, weight) ==
    IF seq = <<>> THEN best
    ELSE MinByDistance(Tail(seq),
                       IF Abs(Head(seq)[1] - weight) < Abs(best[1] - weight)
                       THEN Head(seq) ELSE best,
                       weight)

closest(weight) == MinByDistance(Tail(bins), Head(bins), weight)

\* mutant: the two clamp branches return each other's name
weight_to_name_swapped(weight) ==
    IF weight <= 100 THEN Black
    ELSE IF weight >= 900 THEN Thin
    ELSE closest(weight)[2]

weight_to_name(weight) ==
    IF weight <= 100 THEN Thin
    ELSE IF weight >= 900 THEN Black
    ELSE closest(weight)[2]

(***************************************************************************)
(* normalize_font_names.py: derive_style_name                              *)
(***************************************************************************)
\* int(getattr(font["OS/2"], "usWeightClass", 400)), 400 when it raises
font_weight(font) == IF font.hasOS2 THEN font.usWeightClass ELSE 400

\* mutant: the PostScript name keeps "Regular" like the human name
style_names_symmetric(weight_name, italic) ==
    LET human0 == IF weight_name # Regular \/ italic THEN weight_name ELSE Regular
        ps0 == IF weight_name # Regular \/ italic
               THEN RemoveSpaces(weight_name) ELSE Regular
    IN  IF italic
        THEN [human |-> Strip(IF human0 = Regular THEN Regular \o SP \o Italic
                              ELSE human0 \o SP \o Italic),
              ps |-> Strip(ps0 \o Italic)]
        ELSE [human |-> human0, ps |-> ps0]

\* mutant: the italic suffix is never appended
style_names_no_italic(weight_name, italic) ==
    [human |-> weight_name, ps |-> RemoveSpaces(weight_name)]

\* mutant: a plain Regular is no style at all and gives empty names
style_names_plain_dropped(weight_name, italic) ==
    IF weight_name = Regular /\ ~italic THEN [human |-> <<>>, ps |-> <<>>]
    ELSE IF italic
    THEN [human |-> Strip(weight_name \o SP \o Italic),
          ps |-> Strip(IF weight_name = Regular THEN Italic
                       ELSE RemoveSpaces(weight_name) \o Italic)]
    ELSE [human |-> weight_name, ps |-> RemoveSpaces(weight_name)]

\* lines 102-109: the two names from the bucket name and the italic flag
style_names(weight_name, italic) ==
    LET human0 == IF weight_name # Regular \/ italic THEN weight_name ELSE Regular
        ps0 == IF weight_name # Regular \/ italic
               THEN RemoveSpaces(weight_name) ELSE Regular
    IN  IF italic
        THEN [human |-> Strip(IF human0 = Regular THEN Regular \o SP \o Italic
                              ELSE human0 \o SP \o Italic),
              ps |-> Strip(IF ps0 = Regular THEN Italic ELSE ps0 \o Italic)]
        ELSE [human |-> human0, ps |-> ps0]

\* the outcome of a call that an exception left
Raised == [raised |-> TRUE]

\* mutant: the table lookups are not guarded, a missing table raises
derive_style_name_unguarded(font) ==
    IF ~font.hasOS2 \/ ~font.hasHead THEN Raised
    ELSE style_names(weight_to_name(font.usWeightClass), is_italic(font))

\* mutant: a bold font is named from the bold flag, not from the weight
derive_style_name_bold(font) ==
    style_names(IF is_bold(font) THEN Bold ELSE weight_to_name(font_weight(font)),
                is_italic(font))

derive_style_name(font) ==
    style_names(weight_to_name(font_weight(font)), is_italic(font))

determine_output_extension(font) == IF font.cff THEN DotOtf ELSE DotTtf


(***************************************************************************)
(* State (the line numbers are those of normalize_font_names.py).          *)
(*                                                                         *)
(* Style resolution (derive_style_name applied to fonts one by one):       *)
(*   fonts_in        the fonts handed to derive_style_name (line 88)       *)
(*   weight_names    weight_name (line 100) of every call so far           *)
(*   styles_out      the (human, ps) pairs returned so far (line 109)      *)
(*                                                                         *)
(* One run of main:                                                        *)
(*   src_exists      src_dir.exists() and src_dir.is_dir() (line 190)      *)
(*   candidates      the fonts behind the globbed paths, in the order of   *)
(*                   the list (lines 194-197)                              *)
(*   family          args.family (line 182)                                *)
(*   overwrite       args.overwrite (line 183)                             *)
(*   dry_run         args.dry_run (line 184)                               *)
(*   pc              "start", "loop", "done" (main returned) or "crashed"  *)
(*                   (an exception left main)                              *)
(*   idx             position of the for loop in candidates (line 210)     *)
(*   used_filenames  the dict of line 209                                  *)
(*   base_filenames  base_filename (line 216) of every iteration so far    *)
(*   out_filenames   out_filename (lines 220, 223) of every iteration      *)
(*   results         kind of the message normalize_one_font returned in    *)
(*                   every iteration (line 226)                            *)
(*   successes, failures   the counters of lines 206-207                   *)
(*   files           names of the files in out_dir (line 169)              *)
(*   written         names of the files font.save wrote in this run        *)
(*                   (line 172)                                            *)
(*   out_dir_made    out_dir.mkdir was called (line 168)                   *)
(*   exit_code       the value main returned (lines 192, 200, 235),        *)
(*                   NoExit before it returns                              *)
(*                                                                         *)
(* A second run of main on the same source directory:                      *)
(*   run             number of the current run of main                     *)
(*   prev_base, prev_out   base_filenames and out_filenames of the run     *)
(*                   before the current one                                *)
(*                                                                         *)
(* convert_woff2_to_ttf.py and organize_fonts_by_family.py share the       *)
(* variables of a batch run (family is --force-family, empty when the      *)
(* flag is absent) and add                                                 *)
(*   use_hash_names, organize_by_family, create_collection                 *)
(*                   the flags of convert_woff2_to_ttf.main (283-289)      *)
(*   font_groups     the dict font_groups of convert main (361) and the    *)
(*                   dict families of organize_fonts (72), in insertion    *)
(*                   order: a sequence of [key, members]                   *)
(*   converted_fonts the list of convert main (384)                        *)
(*   collections     the collection files a run has saved                  *)
(*   loaded          the inputs TTFont was called on (history)             *)
(*                                                                         *)
(*   utility         the script that is run (history)                      *)
(*                                                                         *)
(* font_manager.py:                                                        *)
(*   max_workers, skip_download, collections_only, clean   flags of main   *)
(*                   (lines 417-426)                                       *)
(*   downloads       the entries of FONT_MAPPING whose file is in the      *)
(*                   downloads directory                                   *)
(*   task_state      the futures of the executor of the current phase      *)
(*   downloaded_fonts, converted_by_family   the collected results         *)
(*                   (lines 184, 281)                                      *)
(*   reads, writes   the file each conversion task read and wrote          *)
(*                   (history)                                             *)
(***************************************************************************)
VARIABLES fonts_in, weight_names, styles_out,
          src_exists, candidates, family, overwrite, dry_run, pc, idx,
          used_filenames, base_filenames, out_filenames, results,
          successes, failures, files, written, out_dir_made, exit_code,
          run, prev_base, prev_out,
          use_hash_names, organize_by_family, create_collection,
          font_groups, converted_fonts, collections, loaded,
          max_workers, skip_download, collections_only, task_state,
          downloaded_fonts, converted_by_family, reads, writes,
          clean, downloads, utility

styleVars == <<fonts_in, weight_names, styles_out>>
argVars == <<utility, src_exists, candidates, family, overwrite, dry_run>>
runVars == <<pc, idx, used_filenames, base_filenames, out_filenames, results,
             successes, failures, files, written, out_dir_made, exit_code>>
rerunVars == <<run, prev_base, prev_out>>
optVars == <<use_hash_names, organize_by_family, create_collection>>
grpVars == <<font_groups, converted_fonts, collections>>
poolVars == <<max_workers, skip_download, collections_only, clean, downloads,
              task_state, downloaded_fonts, converted_by_family, reads,
              writes>>
vars == <<styleVars, argVars, runVars, rerunVars, optVars, grpVars, loaded,
          poolVars>>

NoExit == 0 - 1

(***************************************************************************)
(* Inputs.                                                                 *)
(***************************************************************************)
Weights == (0 - WeightMargin) .. (1000 + WeightMargin)

\* every font of the style resolution: all weights, both italic signals,
\* the bold bits, missing OS/2 and head tables, both outline types
StyleFonts ==
    { MkFont(w, fs, TRUE, mac, FALSE) : w \in Weights, fs \in {0, 1, 32, 33},
                                        mac \in {0, 2} }
      \cup { MkFont(w, fs, FALSE, 0, TRUE) : w \in Weights, fs \in {0, 1} }
      \cup { MkFontNoOS2(hd, mac, c) : hd \in BOOLEAN, mac \in {0, 2},
                                       c \in BOOLEAN }

\* the weights of the table-driven test of the specification
SampleWeights == {50, 100, 150, 300, 400, 450, 700, 900, 1000}

\* fonts compared two by two
PairFonts ==
    { [MkFont(w, fs, TRUE, mac, c) EXCEPT !.hasName = nm] :
          w \in SampleWeights, fs \in {0, 1, 32, 33}, mac \in {0, 2},
          c \in BOOLEAN, nm \in BOOLEAN }
      \cup { MkFontNoOS2(TRUE, mac, c) : mac \in {0, 2}, c \in BOOLEAN }

CursorGothic == <<"C", "u", "r", "s", "o", "r", " ", "G", "o", "t", "h", "i", "c">>
Sample == <<"S", "a", "m", "p", "l", "e">>
Families == {CursorGothic, Sample}

\* the files a source directory of the batch run may hold
BatchFonts ==
    { MkFont(400, 0, TRUE, 0, FALSE),       \* Regular, TrueType
      MkFont(400, 32, TRUE, 1, FALSE),      \* weight 400 with the bold bit
      MkFont(400, 0, TRUE, 0, TRUE),        \* Regular, CFF
      MkFont(700, 33, TRUE, 3, FALSE),      \* Bold Italic
      MkFont(700, 32, TRUE, 1, FALSE),      \* Bold
      [MkFont(400, 0, TRUE, 0, FALSE) EXCEPT !.hasName = FALSE],
      CorruptFont }

RECURSIVE SeqsUpTo(_, _)
SeqsUpTo(S, n) ==
    IF n = 0 THEN {<<>>}
    ELSE LET shorter == SeqsUpTo(S, n - 1)
         IN  shorter \cup { Append(q, x) : q \in shorter, x \in S }

(***************************************************************************)
(* Style resolution: one call of derive_style_name.                        *)
(***************************************************************************)
OptIdle ==
    /\ use_hash_names = FALSE /\ organize_by_family = FALSE
    /\ create_collection = FALSE

GrpIdle == font_groups = <<>> /\ converted_fonts = <<>> /\ collections = {}

PoolIdle ==
    /\ max_workers = 0 /\ skip_download = FALSE /\ collections_only = FALSE
    /\ clean = FALSE /\ downloads = {}
    /\ task_state = <<>> /\ downloaded_fonts = <<>>
    /\ converted_by_family = <<>> /\ reads = <<>> /\ writes = <<>>

StyleIdle == fonts_in = <<>> /\ weight_names = <<>> /\ styles_out = <<>>

RunIdle ==
    /\ utility = "none"
    /\ src_exists = FALSE /\ candidates = <<>> /\ family = Sample
    /\ overwrite = FALSE /\ dry_run = FALSE
    /\ pc = "idle" /\ idx = 0
    /\ used_filenames = <<>> /\ base_filenames = <<>> /\ out_filenames = <<>>
    /\ results = <<>> /\ successes = 0 /\ failures = 0
    /\ files = {} /\ written = {} /\ out_dir_made = FALSE /\ exit_code = NoExit
    /\ run = 0 /\ prev_base = <<>> /\ prev_out = <<>>
    /\ OptIdle /\ GrpIdle /\ PoolIdle /\ loaded = {}

Resolve ==
    /\ Len(styles_out) < Len(fonts_in)
    /\ LET font == fonts_in[Len(styles_out) + 1]
       IN  /\ weight_names' = Append(weight_names,
                                     weight_to_name(font_weight(font)))
           /\ styles_out' = Append(styles_out, derive_style_name(font))
    /\ UNCHANGED <<fonts_in, argVars, runVars, rerunVars, optVars, grpVars,
                   loaded, poolVars>>

InitStyle ==
    /\ \E f \in StyleFonts : fonts_in = <<f>>
    /\ weight_names = <<>> /\ styles_out = <<>>
    /\ RunIdle

SpecStyle == InitStyle /\ [][Resolve]_vars

InitPair ==
    /\ \E a \in PairFonts, b \in PairFonts : fonts_in = <<a, b>>
    /\ weight_names = <<>> /\ styles_out = <<>>
    /\ RunIdle

SpecPair == InitPair /\ [][Resolve]_vars


(***************************************************************************)
(* normalize_font_names.py: normalize_one_font                             *)
(*                                                                         *)
(* The result is the returned flag, the kind of the returned message, and  *)
(* the effect on the output directory.  save_raises is the environment:    *)
(* font.save raising (an I/O error).                                       *)
(***************************************************************************)
\* mutant: the existence check is skipped, an existing output is replaced
normalize_one_font_clobber(font, fs, ovw, dry, out_filename, save_raises) ==
    IF ~font.loads \/ ~font.hasName
    THEN [ok |-> FALSE, msg |-> "Error", files |-> fs, wrote |-> FALSE,
          mkdir |-> FALSE]
    ELSE IF dry
    THEN [ok |-> TRUE, msg |-> "Would write", files |-> fs, wrote |-> FALSE,
          mkdir |-> FALSE]
    ELSE IF save_raises
    THEN [ok |-> FALSE, msg |-> "Error", files |-> fs, wrote |-> FALSE,
          mkdir |-> TRUE]
    ELSE [ok |-> TRUE, msg |-> "Wrote", files |-> fs \cup {out_filename},
          wrote |-> TRUE, mkdir |-> TRUE]

\* mutant: the font is saved as soon as it is loaded, before its names are
\* rewritten
normalize_one_font_early(font, fs, ovw, dry, out_filename, save_raises) ==
    IF ~font.loads
    THEN [ok |-> FALSE, msg |-> "Error", files |-> fs, wrote |-> FALSE,
          mkdir |-> FALSE]
    ELSE IF ~font.hasName
    THEN [ok |-> FALSE, msg |-> "Error", files |-> fs \cup {out_filename},
          wrote |-> TRUE, mkdir |-> TRUE]
    ELSE IF dry
    THEN [ok |-> TRUE, msg |-> "Would write", files |-> fs, wrote |-> FALSE,
          mkdir |-> FALSE]
    ELSE IF out_filename \in fs /\ ~ovw
    THEN [ok |-> FALSE, msg |-> "Skip", files |-> fs, wrote |-> FALSE,
          mkdir |-> TRUE]
    ELSE IF save_raises
    THEN [ok |-> FALSE, msg |-> "Error", files |-> fs, wrote |-> FALSE,
          mkdir |-> TRUE]
    ELSE [ok |-> TRUE, msg |-> "Wrote", files |-> fs \cup {out_filename},
          wrote |-> TRUE, mkdir |-> TRUE]

normalize_one_font(font, fs, ovw, dry, out_filename, save_raises) ==
    IF ~font.loads \/ ~font.hasName
    THEN \* TTFont(...) or set_name(...) raised: line 174
         [ok |-> FALSE, msg |-> "Error", files |-> fs, wrote |-> FALSE,
          mkdir |-> FALSE]
    ELSE IF dry
    THEN [ok |-> TRUE, msg |-> "Would write", files |-> fs, wrote |-> FALSE,
          mkdir |-> FALSE]
    ELSE IF out_filename \in fs /\ ~ovw
    THEN [ok |-> FALSE, msg |-> "Skip", files |-> fs, wrote |-> FALSE,
          mkdir |-> TRUE]
    ELSE IF save_raises
    THEN [ok |-> FALSE, msg |-> "Error", files |-> fs, wrote |-> FALSE,
          mkdir |-> TRUE]
    ELSE [ok |-> TRUE, msg |-> "Wrote", files |-> fs \cup {out_filename},
          wrote |-> TRUE, mkdir |-> TRUE]

(***************************************************************************)
(* normalize_font_names.py: main, lines 209-223, the filename allocation   *)
(***************************************************************************)
\* f"{ps_family}-{style_ps}{ext}"
BaseFilename(ps_family, style_ps, ext) == ps_family \o DASH \o style_ps \o ext

\* f"{ps_family}-{style_ps}-{n}{ext}"
NumberedFilename(ps_family, style_ps, n, ext) ==
    ps_family \o DASH \o style_ps \o DASH \o IntToStr(n) \o ext

\* mutant: the counter of a repeated name is not incremented
AllocateStuck(used, ps_family, style_ps, ext) ==
    LET base == BaseFilename(ps_family, style_ps, ext)
    IN  IF base \notin DOMAIN used
        THEN [used |-> [b \in DOMAIN used \cup {base} |->
                            IF b = base THEN 1 ELSE used[b]],
              out |-> base]
        ELSE [used |-> used,
              out |-> NumberedFilename(ps_family, style_ps, used[base] + 1, ext)]

\* mutant: one counter is shared by all base names
AllocateShared(used, ps_family, style_ps, ext) ==
    LET base == BaseFilename(ps_family, style_ps, ext)
        total == Cardinality(DOMAIN used)
    IN  IF base \notin DOMAIN used
        THEN [used |-> [b \in DOMAIN used \cup {base} |->
                            IF b = base THEN 1 ELSE used[b]],
              out |-> base]
        ELSE [used |-> [used EXCEPT ![base] = @ + 1],
              out |-> NumberedFilename(ps_family, style_ps,
                                       used[base] + total, ext)]

\* mutant: a name that exists in the output directory counts as taken
AllocateProbing(used, ps_family, style_ps, ext) ==
    LET base == BaseFilename(ps_family, style_ps, ext)
        n == IF base \in DOMAIN used THEN used[base] + 1 ELSE 1
    IN  [used |-> [b \in DOMAIN used \cup {base} |->
                       IF b = base THEN n ELSE used[b]],
         out |-> IF n = 1 /\ base \notin files THEN base
                 ELSE NumberedFilename(ps_family, style_ps, n, ext)]

\* mutant: a dry run plans the base name without counting repetitions
AllocateDry(used, ps_family, style_ps, ext) ==
    LET base == BaseFilename(ps_family, style_ps, ext)
    IN  IF dry_run \/ base \notin DOMAIN used
        THEN [used |-> [b \in DOMAIN used \cup {base} |->
                            IF b = base /\ b \notin DOMAIN used THEN 1
                            ELSE used[b]],
              out |-> base]
        ELSE [used |-> [used EXCEPT ![base] = @ + 1],
              out |-> NumberedFilename(ps_family, style_ps, used[base] + 1, ext)]

\* lines 218-223: the new dict and out_filename
Allocate(used, ps_family, style_ps, ext) ==
    LET base == BaseFilename(ps_family, style_ps, ext)
    IN  IF base \notin DOMAIN used
        THEN [used |-> [b \in DOMAIN used \cup {base} |->
                            IF b = base THEN 1 ELSE used[b]],
              out |-> base]
        ELSE [used |-> [used EXCEPT ![base] = @ + 1],
              out |-> NumberedFilename(ps_family, style_ps, used[base] + 1, ext)]

(***************************************************************************)
(* normalize_font_names.py: main                                           *)
(***************************************************************************)
\* lines 190-200: the two precondition checks
NormStart ==
    /\ pc = "start"
    /\ IF ~src_exists \/ candidates = <<>>
       THEN pc' = "done" /\ exit_code' = 1 /\ idx' = idx
       ELSE pc' = "loop" /\ exit_code' = exit_code /\ idx' = 1
    /\ UNCHANGED <<styleVars, argVars, used_filenames, base_filenames,
                   out_filenames, results, successes, failures, files, written,
                   out_dir_made, rerunVars, optVars, grpVars, loaded,
                   poolVars>>

\* lines 210-231: one iteration of the for loop on a file that TTFont loads
NormItem ==
    /\ pc = "loop"
    /\ idx <= Len(candidates)
    /\ candidates[idx].loads
    /\ \E save_raises \in BOOLEAN :
         LET font == candidates[idx]
             ext == determine_output_extension(font)
             style == derive_style_name(font)
             ps_family == RemoveSpaces(family)
             alloc == Allocate(used_filenames, ps_family, style.ps, ext)
             r == normalize_one_font(font, files, overwrite, dry_run, alloc.out,
                                     save_raises)
         IN  /\ used_filenames' = alloc.used
             /\ base_filenames' =
                    Append(base_filenames, BaseFilename(ps_family, style.ps, ext))
             /\ out_filenames' = Append(out_filenames, alloc.out)
             /\ results' = Append(results, r.msg)
             /\ successes' = IF r.ok THEN successes + 1 ELSE successes
             /\ failures' = IF r.ok THEN failures ELSE failures + 1
             /\ files' = r.files
             /\ written' = IF r.wrote THEN written \cup {alloc.out} ELSE written
             /\ out_dir_made' = (out_dir_made \/ r.mkdir)
    /\ idx' = idx + 1
    /\ loaded' = loaded \cup {idx}
    /\ UNCHANGED <<styleVars, argVars, pc, exit_code, rerunVars, optVars,
                   grpVars, poolVars>>

\* line 212 on a file the library cannot parse: TTFont raises outside of any
\* try block and the exception leaves main
NormItemRaises ==
    /\ pc = "loop"
    /\ idx <= Len(candidates)
    /\ ~candidates[idx].loads
    /\ pc' = "crashed"
    /\ loaded' = loaded \cup {idx}
    /\ UNCHANGED <<styleVars, argVars, idx, used_filenames, base_filenames,
                   out_filenames, results, successes, failures, files, written,
                   out_dir_made, exit_code, rerunVars, optVars, grpVars,
                   poolVars>>

\* lines 233-235: the loop is over, main returns
NormFinish ==
    /\ pc = "loop"
    /\ idx > Len(candidates)
    /\ pc' = "done"
    /\ exit_code' = IF failures = 0 THEN 0 ELSE 2
    /\ UNCHANGED <<styleVars, argVars, idx, used_filenames, base_filenames,
                   out_filenames, results, successes, failures, files, written,
                   out_dir_made, rerunVars, optVars, grpVars, loaded,
                   poolVars>>

Init ==
    /\ StyleIdle
    /\ utility = "normalize_font_names"
    /\ src_exists \in BOOLEAN
    /\ candidates \in SeqsUpTo(BatchFonts, MaxFonts)
    /\ (~src_exists => candidates = <<>>)
    /\ family \in Families
    /\ overwrite \in BOOLEAN
    /\ dry_run \in BOOLEAN
    /\ pc = "start" /\ idx = 0
    /\ used_filenames = <<>> /\ base_filenames = <<>> /\ out_filenames = <<>>
    /\ results = <<>> /\ successes = 0 /\ failures = 0
    /\ files \in {{}, {BaseFilename(RemoveSpaces(family), Regular, DotTtf)}}
    /\ written = {} /\ out_dir_made = FALSE /\ exit_code = NoExit
    /\ run = 1 /\ prev_base = <<>> /\ prev_out = <<>>
    /\ OptIdle /\ GrpIdle /\ PoolIdle /\ loaded = {}

Next == NormStart \/ NormItem \/ NormItemRaises \/ NormFinish

Spec == Init /\ [][Next]_vars


(***************************************************************************)
(* main is run a second time on the same source directory, with the output *)
(* directory as the first run left it and with any --overwrite/--dry-run.  *)
(* Every local of main starts afresh (lines 206-209).                      *)
(***************************************************************************)
RerunFonts ==
    { MkFont(400, 0, TRUE, 0, FALSE),
      MkFont(400, 0, TRUE, 0, TRUE),
      MkFont(700, 33, TRUE, 3, FALSE),
      CorruptFont }

NormAgain ==
    /\ pc = "done"
    /\ exit_code # 1
    /\ run = 1
    /\ run' = 2
    /\ prev_base' = base_filenames
    /\ prev_out' = out_filenames
    /\ overwrite' \in BOOLEAN
    /\ dry_run' \in BOOLEAN
    /\ pc' = "start" /\ idx' = 0
    /\ used_filenames' = <<>> /\ base_filenames' = <<>> /\ out_filenames' = <<>>
    /\ results' = <<>> /\ successes' = 0 /\ failures' = 0
    /\ written' = {} /\ exit_code' = NoExit /\ loaded' = {}
    /\ UNCHANGED <<styleVars, utility, src_exists, candidates, family, files,
                   out_dir_made, optVars, grpVars, poolVars>>

InitRerun ==
    /\ Init
    /\ candidates \in SeqsUpTo(RerunFonts, MaxFonts)

NextRerun == Next \/ NormAgain

SpecRerun == InitRerun /\ [][NextRerun]_vars


(***************************************************************************)
(* Properties of the batch run.                                            *)
(***************************************************************************)
CorruptItems == { i \in DOMAIN candidates : ~candidates[i].loads }

\* every item but the corrupt ones is a font the run can rename
OthersValid ==
    \A i \in DOMAIN candidates :
        candidates[i].loads => candidates[i].hasName

\* no item was skipped for an existing output and no save raised
NoOtherFailure ==
    \A i \in DOMAIN results :
        candidates[i].loads => results[i] \in {"Wrote", "Would write"}

\* C1: per-item isolation.  In a batch that passes the preconditions and
\* holds exactly one corrupt item, all others valid, no exception leaves
\* main, and when main has returned it has counted one failure and
\* (number of inputs - 1) successes and returned 2.
C1_PerItemIsolation ==
    (src_exists /\ Cardinality(CorruptItems) = 1 /\ OthersValid)
        => /\ pc # "crashed"
           /\ (pc = "done" /\ NoOtherFailure)
                  => /\ failures = 1
                     /\ successes = Len(candidates) - 1
                     /\ exit_code = 2


\* C2: allocator injectivity.  No two iterations of one run get the same
\* out_filename, whatever base names repeat.
C2_OutFilenamesInjective ==
    \A i, j \in DOMAIN out_filenames :
        i # j => out_filenames[i] # out_filenames[j]

\* three iterations asked for the same base name and got three names
C2_Witness ==
    /\ Len(out_filenames) = 3
    /\ base_filenames[1] = base_filenames[2]
    /\ base_filenames[2] = base_filenames[3]
    /\ Cardinality({ out_filenames[i] : i \in 1..3 }) = 3

(***************************************************************************)
(* The numbering the specification states, written on the characters of    *)
(* the base name: "-k" goes in front of the last "." of the name.          *)
(***************************************************************************)
LastDot(name) ==
    CHOOSE i \in DOMAIN name :
        name[i] = "." /\ \A j \in DOMAIN name : name[j] = "." => j <= i

CounterText(k) ==
    CASE k = 2 -> <<"2">> [] k = 3 -> <<"3">> [] k = 4 -> <<"4">>
      [] k = 5 -> <<"5">> [] k = 6 -> <<"6">>

WithCounter(name, k) ==
    SubSeq(name, 1, LastDot(name) - 1) \o <<"-">> \o CounterText(k)
        \o SubSeq(name, LastDot(name), Len(name))

\* how many of the first i requests asked for the base name of request i
Occurrence(bases, i) ==
    Cardinality({ j \in 1..i : bases[j] = bases[i] })

ExpectedName(bases, i) ==
    IF Occurrence(bases, i) = 1 THEN bases[i]
    ELSE WithCounter(bases[i], Occurrence(bases, i))

\* C3: allocator numbering.  The first request of a base name returns it
\* unchanged and records count 1; the k-th request of it (k >= 2) returns the
\* base name with "-k" before the extension, whatever other base names were
\* requested in between; the recorded count is the number of requests.
C3_Numbering ==
    /\ Len(out_filenames) = Len(base_filenames)
    /\ \A i \in DOMAIN out_filenames :
           out_filenames[i] = ExpectedName(base_filenames, i)
    /\ DOMAIN used_filenames = { base_filenames[i] : i \in DOMAIN base_filenames }
    /\ \A i \in DOMAIN base_filenames :
           used_filenames[base_filenames[i]] =
               Cardinality({ j \in DOMAIN base_filenames :
                                base_filenames[j] = base_filenames[i] })

\* the sequence A, B, A of the specification: A.ttf, B.otf, A-2.ttf
C3_Witness ==
    /\ Len(out_filenames) = 3
    /\ base_filenames[1] = base_filenames[3]
    /\ base_filenames[1] # base_filenames[2]
    /\ out_filenames[1] = base_filenames[1]
    /\ out_filenames[2] = base_filenames[2]
    /\ out_filenames[3] = WithCounter(base_filenames[1], 2)
    /\ used_filenames[base_filenames[1]] = 2


\* C4: allocator determinism.  The dict is empty when a run enters its
\* loop, and a second run over the same requests returns, request by
\* request, the names of the first run, whatever --dry-run and --overwrite
\* are and whatever the first run left in the output directory.
C4_Deterministic ==
    /\ (pc = "start" \/ (pc = "loop" /\ idx = 1)) => used_filenames = <<>>
    /\ run = 2 =>
         \A i \in DOMAIN out_filenames :
             (i <= Len(prev_base)
                /\ SubSeq(base_filenames, 1, i) = SubSeq(prev_base, 1, i))
                 => out_filenames[i] = prev_out[i]

\* a second run has finished after a first run that wrote files, and a
\* repeated base name got its counter in both
C4_Witness ==
    /\ run = 2 /\ pc = "done"
    /\ Len(out_filenames) >= 2
    /\ base_filenames = prev_base
    /\ out_filenames = prev_out
    /\ out_filenames[2] # base_filenames[2]
    /\ out_filenames[1] \in files


(***************************************************************************)
(* Properties of the style resolution.  What the specification expects is  *)
(* written from its text, on the weight and the two italic bits.           *)
(***************************************************************************)
Resolved == DOMAIN styles_out

TableKeys == {100, 200, 300, 400, 500, 600, 700, 800, 900}

NameOfKey(k) ==
    CASE k = 100 -> Thin [] k = 200 -> ExtraLight [] k = 300 -> Light
      [] k = 400 -> Regular [] k = 500 -> Medium [] k = 600 -> SemiBold
      [] k = 700 -> Bold [] k = 800 -> ExtraBold [] k = 900 -> Black

\* the key at minimum distance, the lower one on a tie
NearestKey(w) ==
    CHOOSE k \in TableKeys :
        \A k2 \in TableKeys :
            \/ Abs(k - w) < Abs(k2 - w)
            \/ (Abs(k - w) = Abs(k2 - w) /\ k <= k2)

\* the bucket the specification gives a weight: clamp, else nearest key
ExpectedBucket(w) ==
    IF w <= 100 THEN Thin ELSE IF w >= 900 THEN Black ELSE NameOfKey(NearestKey(w))

ItalicBitSet(f) ==
    \/ (f.hasOS2 /\ f.fsSelection % 2 = 1)
    \/ (f.hasHead /\ (f.macStyle \div 2) % 2 = 1)

\* C5: nearest neighbour.  For a weight strictly between 100 and 900 the
\* bucket is the name of the table key at minimum distance, and of the lower
\* key on an exact tie.
C5_NearestNeighbour ==
    \A i \in Resolved :
        LET f == fonts_in[i]
        IN  (f.hasOS2 /\ f.usWeightClass > 100 /\ f.usWeightClass < 900)
                => weight_names[i] = NameOfKey(NearestKey(f.usWeightClass))

\* weight 450, at distance 50 of 400 and of 500, was named Regular
C5_Witness ==
    /\ Resolved # {}
    /\ fonts_in[1].hasOS2 /\ fonts_in[1].usWeightClass = 450
    /\ weight_names[1] = Regular

\* C6: clamping.  Every weight <= 100, zero and negative weights included,
\* is named Thin and every weight >= 900 is named Black.
C6_Clamp ==
    \A i \in Resolved :
        LET f == fonts_in[i]
        IN  /\ (f.hasOS2 /\ f.usWeightClass <= 100) => weight_names[i] = Thin
            /\ (f.hasOS2 /\ f.usWeightClass >= 900) => weight_names[i] = Black

\* a negative weight was named Thin
C6_Witness ==
    /\ Resolved # {}
    /\ fonts_in[1].hasOS2 /\ fonts_in[1].usWeightClass < 0
    /\ weight_names[1] = Thin

\* C7: weight exactly 400 and italic gives human "Regular Italic" and
\* PostScript-safe "Italic".
C7_RegularItalicAsymmetry ==
    \A i \in Resolved :
        LET f == fonts_in[i]
        IN  (f.hasOS2 /\ f.usWeightClass = 400 /\ ItalicBitSet(f))
                => /\ styles_out[i].human = Regular \o SP \o Italic
                   /\ styles_out[i].ps = Italic

\* a weight-400 font that is italic by the legacy bit alone was resolved
C7_Witness ==
    /\ Resolved # {}
    /\ fonts_in[1].hasOS2 /\ fonts_in[1].usWeightClass = 400
    /\ fonts_in[1].fsSelection % 2 = 0 /\ ItalicBitSet(fonts_in[1])
    /\ styles_out[1].ps = Italic

\* C8: weight 400 and not italic gives human "Regular" and PostScript-safe
\* "Regular".
C8_RegularInvariant ==
    \A i \in Resolved :
        LET f == fonts_in[i]
        IN  (f.hasOS2 /\ f.usWeightClass = 400 /\ ~ItalicBitSet(f))
                => /\ styles_out[i].human = Regular
                   /\ styles_out[i].ps = Regular

\* a weight-400 font with no italic bit was resolved
C8_Witness ==
    /\ Resolved # {}
    /\ fonts_in[1].hasOS2 /\ fonts_in[1].usWeightClass = 400
    /\ ~ItalicBitSet(fonts_in[1])
    /\ styles_out[1].human = Regular

\* C9: a weight whose bucket N is not Regular gives (N, N) when not italic
\* and (N + " Italic", N + "Italic") when italic.
C9_NonRegularStyle ==
    \A i \in Resolved :
        LET f == fonts_in[i]
            N == ExpectedBucket(f.usWeightClass)
        IN  (f.hasOS2 /\ N # Regular)
                => IF ItalicBitSet(f)
                   THEN /\ styles_out[i].human = N \o SP \o Italic
                        /\ styles_out[i].ps = N \o Italic
                   ELSE /\ styles_out[i].human = N
                        /\ styles_out[i].ps = N

\* weight 700, italic, was resolved to "Bold Italic" and "BoldItalic"
C9_Witness ==
    /\ Resolved # {}
    /\ fonts_in[1].hasOS2 /\ fonts_in[1].usWeightClass = 700
    /\ ItalicBitSet(fonts_in[1])
    /\ styles_out[1].human =
           <<"B", "o", "l", "d", " ", "I", "t", "a", "l", "i", "c">>
    /\ styles_out[1].ps = <<"B", "o", "l", "d", "I", "t", "a", "l", "i", "c">>

\* C10: purity.  Two fonts with the same weightClass and the same italic
\* value get the same pair of names, whatever their bold bits, name table
\* and outline type.
C10_Purity ==
    \A i, j \in Resolved :
        LET f == fonts_in[i]
            g == fonts_in[j]
        IN  (f.hasOS2 /\ g.hasOS2 /\ f.usWeightClass = g.usWeightClass
               /\ ItalicBitSet(f) = ItalicBitSet(g))
                => styles_out[i] = styles_out[j]

\* two fonts of weight 400, not italic, that differ in the bold bit, the
\* outline type and the name table were both resolved
C10_Witness ==
    /\ Len(styles_out) = 2
    /\ fonts_in[1].hasOS2 /\ fonts_in[2].hasOS2
    /\ fonts_in[1].usWeightClass = 400 /\ fonts_in[2].usWeightClass = 400
    /\ ~ItalicBitSet(fonts_in[1]) /\ ~ItalicBitSet(fonts_in[2])
    /\ fonts_in[1].fsSelection = 32 /\ fonts_in[2].fsSelection = 0
    /\ fonts_in[1].cff # fonts_in[2].cff
    /\ fonts_in[1].hasName # fonts_in[2].hasName
    /\ styles_out[1] = styles_out[2]


\* the pair of names the specification gives a weight and an italic flag
ExpectedStyle(w, italic) ==
    LET N == ExpectedBucket(w)
    IN  IF italic
        THEN [human |-> N \o SP \o Italic,
              ps |-> IF N = Regular THEN Italic ELSE N \o Italic]
        ELSE [human |-> N, ps |-> N]

\* C11: totality.  derive_style_name returns a pair of names for every
\* font: a missing or unreadable weight counts as 400 and a missing or
\* unreadable italic signal counts as not set.
C11_Total ==
    \A i \in Resolved :
        LET f == fonts_in[i]
        IN  /\ styles_out[i] # Raised
            /\ styles_out[i] =
                   ExpectedStyle(IF f.hasOS2 THEN f.usWeightClass ELSE 400,
                                 ItalicBitSet(f))

\* a font with neither OS/2 nor head table was resolved to Regular
C11_Witness ==
    /\ Resolved # {}
    /\ ~fonts_in[1].hasOS2 /\ ~fonts_in[1].hasHead
    /\ styles_out[1] = [human |-> Regular, ps |-> Regular]


\* the items of the batch that TTFont loads and that carry a name table
ReadableItems ==
    { i \in DOMAIN candidates : candidates[i].loads /\ candidates[i].hasName }

\* C12: dry-run writes nothing.  A run of normalize_font_names with
\* --dry-run creates no directory and writes no file, and when it has ended
\* it has derived and printed the planned output filename of every readable
\* input.
C12_DryRunPlansAll ==
    (dry_run /\ src_exists)
        => /\ written = {} /\ ~out_dir_made
           /\ pc \in {"done", "crashed"}
                  => \A i \in ReadableItems :
                         /\ i \in DOMAIN results
                         /\ results[i] = "Would write"
                         /\ i \in DOMAIN out_filenames


(***************************************************************************)
(* Fonts with name records, as convert_woff2_to_ttf.py and                 *)
(* organize_fonts_by_family.py read them.                                  *)
(*   family, subfamily, postscript_name   the decoded records of nameID 1, *)
(*                   2 and 6; empty when the font has no such record or    *)
(*                   the record does not decode                            *)
(*   features        the feature tags of the GSUB and GPOS tables          *)
(*   suffix          the extension of the file that holds the font         *)
(***************************************************************************)
Unknown == <<"U", "n", "k", "n", "o", "w", "n">>
Slash == <<"/">>
DotTtc == <<".", "t", "t", "c">>
DotWoff2 == <<".", "w", "o", "f", "f", "2">>

Named(font, fam, sub, psn, feats, sfx) ==
    [loads |-> font.loads, hasOS2 |-> font.hasOS2,
     usWeightClass |-> font.usWeightClass, fsSelection |-> font.fsSelection,
     hasHead |-> font.hasHead, macStyle |-> font.macStyle, cff |-> font.cff,
     hasName |-> font.hasName,
     family |-> fam, subfamily |-> sub, postscript_name |-> psn,
     features |-> feats, suffix |-> sfx]

\* the two fonts of the end-to-end scenario of the specification
SampleRegular(sfx) ==
    Named(MkFont(400, 0, TRUE, 0, FALSE), Sample, Regular,
          Sample \o DASH \o Regular, {}, sfx)

SampleBoldItalic(sfx) ==
    Named(MkFont(700, 33, TRUE, 3, FALSE), Sample, Bold \o SP \o Italic,
          Sample \o DASH \o Bold \o Italic, {}, sfx)

\* an OpenType/CFF font of a family whose name holds a blank
GothicRegular(sfx) ==
    Named(MkFont(400, 0, TRUE, 0, TRUE), CursorGothic, Regular,
          RemoveSpaces(CursorGothic) \o DASH \o Regular, {}, sfx)

\* a font whose name table holds no family and no subfamily record
NoFamilyFont(sfx) ==
    Named(MkFont(700, 32, TRUE, 1, FALSE), <<>>, <<>>, <<>>, {}, sfx)

\* a font without name table
NoNameFont(sfx) ==
    Named([MkFont(400, 0, TRUE, 0, FALSE) EXCEPT !.hasName = FALSE],
          <<>>, <<>>, <<>>, {}, sfx)

\* a file the font library cannot parse
CorruptFile(sfx) == Named(CorruptFont, <<>>, <<>>, <<>>, {}, sfx)

(***************************************************************************)
(* Python dicts of lists, in insertion order.                              *)
(***************************************************************************)
GroupKeys(groups) == { groups[g].key : g \in DOMAIN groups }

\* if key not in d: d[key] = [];  d[key].append(member)
AddToGroup(groups, key, member) ==
    IF key \in GroupKeys(groups)
    THEN [g \in DOMAIN groups |->
              IF groups[g].key = key
              THEN [key |-> key, members |-> Append(groups[g].members, member)]
              ELSE groups[g]]
    ELSE Append(groups, [key |-> key, members |-> <<member>>])

\* the (key, member) pairs in the order the nested for loops visit them
RECURSIVE Flatten(_)
Flatten(groups) ==
    IF groups = <<>> THEN <<>>
    ELSE [k \in DOMAIN Head(groups).members |->
              [key |-> Head(groups).key, member |-> Head(groups).members[k]]]
         \o Flatten(Tail(groups))

(***************************************************************************)
(* organize_fonts_by_family.py: get_font_info, generate_proper_filename    *)
(***************************************************************************)
get_font_info(font) ==
    IF ~font.loads
    THEN [family |-> Unknown, subfamily |-> Regular]
    ELSE [family |-> IF font.hasName /\ font.family # <<>>
                     THEN font.family ELSE Unknown,
          subfamily |-> IF font.hasName /\ font.subfamily # <<>>
                        THEN font.subfamily ELSE Regular]

\* mutant: the subfamily is appended also when it is Regular
generate_proper_filename_always(fam, subfamily, extension) ==
    RemoveSpaces(fam) \o DASH \o RemoveSpaces(subfamily) \o extension

generate_proper_filename(fam, subfamily, extension) ==
    LET clean_family == RemoveSpaces(fam)
        clean_subfamily == RemoveSpaces(subfamily)
    IN  IF clean_subfamily = Regular
        THEN clean_family \o extension
        ELSE clean_family \o DASH \o clean_subfamily \o extension

(***************************************************************************)
(* organize_fonts_by_family.py: main and organize_fonts                    *)
(*                                                                         *)
(* candidates is font_files, font_groups is families, results holds the    *)
(* message of each copy, out_filenames the new_filename of each copy.      *)
(***************************************************************************)
\* the variables no step of organize_fonts_by_family changes
orgFrame ==
    <<styleVars, utility, src_exists, candidates, family, overwrite, dry_run,
      used_filenames, base_filenames, successes, failures, rerunVars, optVars,
      converted_fonts, poolVars>>

\* main lines 156-158, organize_fonts lines 57-65 and main lines 160-167:
\* a missing source directory returns 1; with no font file organize_fonts
\* returns early and main goes on to return 0
OrgStart ==
    /\ pc = "o_start"
    /\ IF ~src_exists
       THEN pc' = "done" /\ exit_code' = 1 /\ idx' = idx
       ELSE IF candidates = <<>>
       THEN pc' = "done" /\ exit_code' = 0 /\ idx' = idx
       ELSE pc' = "o_group" /\ exit_code' = exit_code /\ idx' = 1
    /\ UNCHANGED <<orgFrame, font_groups, results, out_filenames, files,
                   written, out_dir_made, collections, loaded>>

\* lines 74-80: one iteration of the grouping loop
OrgGroup ==
    /\ pc = "o_group"
    /\ idx <= Len(candidates)
    /\ LET info == get_font_info(candidates[idx])
       IN  font_groups' =
               AddToGroup(font_groups, info.family,
                          [path |-> idx, subfamily |-> info.subfamily])
    /\ loaded' = loaded \cup {idx}
    /\ IF idx = Len(candidates)
       THEN pc' = "o_copy" /\ idx' = 1
       ELSE pc' = pc /\ idx' = idx + 1
    /\ UNCHANGED <<orgFrame, results, out_filenames, files, written,
                   out_dir_made, collections, exit_code>>

\* lines 83-106: one iteration of the inner copy loop, with the mkdir of
\* its family directory; copy_raises is shutil.copy2 raising
OrgCopy ==
    /\ pc = "o_copy"
    /\ idx <= Len(Flatten(font_groups))
    /\ LET item == Flatten(font_groups)[idx]
           extension == candidates[item.member.path].suffix
           new_filename ==
               generate_proper_filename(item.key, item.member.subfamily,
                                        extension)
           new_path == item.key \o Slash \o new_filename
       IN  /\ out_filenames' = Append(out_filenames, new_filename)
           /\ IF new_path \in files /\ ~overwrite
              THEN /\ results' = Append(results, "Skip")
                   /\ UNCHANGED <<files, written>>
              ELSE \E copy_raises \in BOOLEAN :
                     IF copy_raises
                     THEN /\ results' = Append(results, "Error")
                          /\ UNCHANGED <<files, written>>
                     ELSE /\ results' = Append(results, "Organized")
                          /\ files' = files \cup {new_path}
                          /\ written' = written \cup {new_path}
    /\ out_dir_made' = TRUE
    /\ IF idx = Len(Flatten(font_groups))
       THEN pc' = "o_coll" /\ idx' = 1
       ELSE pc' = pc /\ idx' = idx + 1
    /\ UNCHANGED <<orgFrame, font_groups, collections, loaded, exit_code>>

\* the font files of a family directory, as family_dir.glob("*.[ot]tf")
FamilyDirFonts(fs, key) ==
    { f \in fs : \E name \in {generate_proper_filename(key, sub, sfx) :
                                 sub \in {Regular, Bold \o SP \o Italic},
                                 sfx \in {DotTtf, DotOtf}} :
                     f = key \o Slash \o name }

\* lines 115-142: one iteration of the collection loop.  created is the
\* environment: some file of the family directory loads and
\* collection.save does not raise
OrgCollection ==
    /\ pc = "o_coll"
    /\ idx <= Len(font_groups)
    /\ LET key == font_groups[idx].key
           collection_path == key \o Slash \o RemoveSpaces(key) \o DotTtc
       IN  IF Len(font_groups[idx].members) > 1
           THEN \E created \in BOOLEAN :
                  /\ created => FamilyDirFonts(files, key) # {}
                  /\ IF created
                     THEN /\ collections' = collections \cup {collection_path}
                          /\ files' = files \cup {collection_path}
                          /\ written' = written \cup {collection_path}
                     ELSE UNCHANGED <<collections, files, written>>
           ELSE UNCHANGED <<collections, files, written>>
    /\ idx' = idx + 1
    /\ UNCHANGED <<orgFrame, font_groups, results, out_filenames, out_dir_made,
                   loaded, pc, exit_code>>

\* main lines 162-167: organize_fonts has returned, main returns 0
OrgFinish ==
    /\ pc = "o_coll"
    /\ idx > Len(font_groups)
    /\ pc' = "done"
    /\ exit_code' = 0
    /\ UNCHANGED <<orgFrame, font_groups, results, out_filenames, files,
                   written, out_dir_made, collections, loaded, idx>>

\* the files the two globs of lines 60-61 may find
OrgFonts ==
    { SampleRegular(DotTtf), SampleBoldItalic(DotTtf), NoFamilyFont(DotTtf),
      CorruptFile(DotTtf), GothicRegular(DotOtf), NoNameFont(DotOtf) }

\* font_files lists the *.ttf files before the *.otf files
TtfBeforeOtf(q) ==
    \A i, j \in DOMAIN q :
        (q[i].suffix = DotOtf /\ q[j].suffix = DotTtf) => i > j

InitOrg ==
    /\ StyleIdle
    /\ utility = "organize_fonts_by_family"
    /\ src_exists \in BOOLEAN
    /\ candidates \in { q \in SeqsUpTo(OrgFonts, MaxFonts) : TtfBeforeOtf(q) }
    /\ (~src_exists => candidates = <<>>)
    /\ family = <<>>
    /\ overwrite \in BOOLEAN
    /\ dry_run = FALSE
    /\ pc = "o_start" /\ idx = 0
    /\ used_filenames = <<>> /\ base_filenames = <<>> /\ out_filenames = <<>>
    /\ results = <<>> /\ successes = 0 /\ failures = 0
    /\ files \in {{}, {Sample \o Slash \o Sample \o DotTtf}}
    /\ written = {} /\ out_dir_made = FALSE /\ exit_code = NoExit
    /\ run = 1 /\ prev_base = <<>> /\ prev_out = <<>>
    /\ OptIdle /\ GrpIdle /\ PoolIdle /\ loaded = {}

NextOrg == OrgStart \/ OrgGroup \/ OrgCopy \/ OrgCollection \/ OrgFinish

SpecOrg == InitOrg /\ [][NextOrg]_vars



(***************************************************************************)
(* More Python string operations, used by convert_woff2_to_ttf.py.         *)
(***************************************************************************)
UpperCase ==
    <<"A", "B", "C", "D", "E", "F", "G", "H", "I", "J", "K", "L", "M",
      "N", "O", "P", "Q", "R", "S", "T", "U", "V", "W", "X", "Y", "Z">>

LowerCase ==
    <<"a", "b", "c", "d", "e", "f", "g", "h", "i", "j", "k", "l", "m",
      "n", "o", "p", "q", "r", "s", "t", "u", "v", "w", "x", "y", "z">>

Digits == {"0", "1", "2", "3", "4", "5", "6", "7", "8", "9"}

\* str.lower()
LowerChar(c) ==
    IF \E i \in DOMAIN UpperCase : UpperCase[i] = c
    THEN LowerCase[CHOOSE i \in DOMAIN UpperCase : UpperCase[i] = c]
    ELSE c

Lower(s) == [i \in DOMAIN s |-> LowerChar(s[i])]

\* sub in s
Contains(s, sub) ==
    \E i \in 1..(Len(s) - Len(sub) + 1) : SubSeq(s, i, i + Len(sub) - 1) = sub

\* s.startswith(prefix)
StartsWith(s, prefix) ==
    Len(s) >= Len(prefix) /\ SubSeq(s, 1, Len(prefix)) = prefix

\* the classes \w and \s of the regular expressions
WordChars ==
    { UpperCase[i] : i \in DOMAIN UpperCase }
        \cup { LowerCase[i] : i \in DOMAIN LowerCase }
        \cup Digits \cup {"_"}

WordChar(c) == c \in WordChars

SpaceChar(c) == c \in {" ", "\t", "\n", "\r"}

\* re.sub(r'[^\w\s-]', '', s) followed by re.sub(r'\s+', '', s)
CleanFamily(s) ==
    SelectSeq(SelectSeq(s, LAMBDA c : WordChar(c) \/ SpaceChar(c) \/ c = "-"),
              LAMBDA c : ~SpaceChar(c))

\* re.sub(r'[^\w-]', '', s)
CleanPsName(s) == SelectSeq(s, LAMBDA c : WordChar(c) \/ c = "-")

\* the first word of s and what follows it, for str.split()
RECURSIVE FirstWord(_)
FirstWord(s) ==
    IF s = <<>> \/ SpaceChar(Head(s)) THEN <<>>
    ELSE <<Head(s)>> \o FirstWord(Tail(s))

\* str.split(): the words between runs of white space
RECURSIVE Split(_)
Split(s) ==
    IF s = <<>> THEN <<>>
    ELSE IF SpaceChar(Head(s)) THEN Split(Tail(s))
    ELSE LET w == FirstWord(s)
         IN  <<w>> \o Split(SubSeq(s, Len(w) + 1, Len(s)))

\* sep.join(parts)
RECURSIVE Join(_, _)
Join(sep, parts) ==
    IF parts = <<>> THEN <<>>
    ELSE IF Len(parts) = 1 THEN parts[1]
    ELSE parts[1] \o sep \o Join(sep, Tail(parts))

\* x in list
InList(x, list) == \E i \in DOMAIN list : list[i] = x

(***************************************************************************)
(* convert_woff2_to_ttf.py: extract_font_metadata                          *)
(***************************************************************************)
UltraLight == <<"U", "l", "t", "r", "a", "L", "i", "g", "h", "t">>
SemiLight == <<"S", "e", "m", "i", "L", "i", "g", "h", "t">>
ExtraBlack == <<"E", "x", "t", "r", "a", "B", "l", "a", "c", "k">>
Outlined == <<"O", "u", "t", "l", "i", "n", "e", "d">>
Oblique == <<"O", "b", "l", "i", "q", "u", "e">>
Dlig == <<"d", "l", "i", "g">>
Ligatures == <<"L", "i", "g", "a", "t", "u", "r", "e", "s">>
Stylistic == <<"S", "t", "y", "l", "i", "s", "t", "i", "c">>
PLUS == <<"+">>

\* the dict weight_names of lines 66-70, in the order of its sorted keys
conv_weight_names ==
    << <<100, Thin>>, <<200, ExtraLight>>, <<250, UltraLight>>,
       <<300, Light>>, <<350, SemiLight>>, <<400, Regular>>,
       <<500, Medium>>, <<600, SemiBold>>, <<700, Bold>>,
       <<800, ExtraBold>>, <<900, Black>>, <<950, ExtraBlack>> >>

\* mutant: the first key strictly above weight_class is taken
conv_weight_above(weight_class) ==
    LET hits == { i \in DOMAIN conv_weight_names :
                      weight_class < conv_weight_names[i][1] }
    IN  IF hits # {}
        THEN conv_weight_names[CHOOSE i \in hits : \A j \in hits : i <= j][2]
        ELSE <<"W">> \o IntToStr(weight_class)

\* lines 73-78: the name of the first key that is >= weight_class, else
\* the letter W and the number
conv_weight(weight_class) ==
    LET hits == { i \in DOMAIN conv_weight_names :
                      weight_class <= conv_weight_names[i][1] }
    IN  IF hits # {}
        THEN conv_weight_names[CHOOSE i \in hits : \A j \in hits : i <= j][2]
        ELSE <<"W">> \o IntToStr(weight_class)

extract_font_metadata(font) ==
    LET fam == IF font.hasName THEN font.family ELSE <<>>
        sub == IF font.hasName THEN font.subfamily ELSE <<>>
        psn == IF font.hasName THEN font.postscript_name ELSE <<>>
        table_weight == conv_weight(font.usWeightClass)
        selection == font.fsSelection
        parts1 == IF BitSet(selection, 1) THEN <<Italic>> ELSE <<>>
        parts2 == IF BitSet(selection, 8) THEN Append(parts1, Outlined)
                  ELSE parts1
        named == sub # <<>> /\ sub # Regular
        parts3 == IF named /\ Contains(Lower(sub), Lower(Italic))
                           /\ ~InList(Italic, parts2)
                  THEN Append(parts2, Italic) ELSE parts2
        style_parts == IF named /\ Contains(Lower(sub), Lower(Oblique))
                                /\ ~InList(Oblique, parts3)
                       THEN Append(parts3, Oblique) ELSE parts3
    IN  [family |-> fam,
         subfamily |-> sub,
         postscript_name |-> psn,
         weight |-> IF ~font.hasOS2 THEN Regular
                    ELSE IF BitSet(selection, 32) /\ table_weight = Regular
                    THEN Bold
                    ELSE table_weight,
         style |-> IF font.hasOS2 /\ style_parts # <<>>
                   THEN Join(SP, style_parts) ELSE Regular,
         features |-> font.features]

(***************************************************************************)
(* convert_woff2_to_ttf.py: generate_output_filename                       *)
(* An absent --force-family is the empty string.                           *)
(***************************************************************************)
generate_output_filename(metadata, extension, force_family) ==
    LET fam == CleanFamily(IF force_family # <<>> THEN force_family
                           ELSE IF metadata.family # <<>> THEN metadata.family
                           ELSE Unknown)
        weight_part == IF metadata.weight # Regular THEN <<metadata.weight>>
                       ELSE <<>>
        style_parts == IF metadata.style # Regular
                       THEN weight_part \o Split(metadata.style)
                       ELSE weight_part
        stylistic_sets == { f \in metadata.features :
                                StartsWith(f, <<"s", "s">>) }
        ligatures == IF Dlig \in metadata.features THEN <<Ligatures>>
                     ELSE <<>>
        special_features == IF Cardinality(stylistic_sets) > 3
                            THEN Append(ligatures, Stylistic) ELSE ligatures
        filename_parts ==
            <<fam>>
            \o (IF style_parts # <<>> THEN <<Join(DASH, style_parts)>>
                ELSE <<>>)
            \o (IF special_features # <<>>
                THEN <<Join(PLUS, special_features)>> ELSE <<>>)
        generic == { Lower(Unknown), Lower(Regular), <<"f", "o", "n", "t">> }
    IN  IF force_family = <<>> /\ (fam = <<>> \/ Lower(fam) \in generic)
           /\ metadata.postscript_name # <<>>
        THEN CleanPsName(metadata.postscript_name) \o extension
        ELSE Join(DASH, filename_parts) \o extension


(***************************************************************************)
(* convert_woff2_to_ttf.py: convert_single_file                            *)
(*                                                                         *)
(* dir is the family directory below the output directory, empty for the   *)
(* output directory itself.  save_raises is the environment: font.save     *)
(* raising.  The result is the returned flag, the kind of the message, the *)
(* output filename and path, and the effect on the output directory.       *)
(***************************************************************************)
\* the name of the i-th file of the sorted glob, without its extension
Stem(i) == <<"f">> \o IntToStr(i)

\* out_dir / name
PathIn(dir, name) == IF dir = <<>> THEN name ELSE dir \o Slash \o name

\* mutant: the existence check is skipped, an existing output is replaced
convert_single_file_clobber(font, stem, dir, fs, ovw, use_metadata_names, force_family, save_raises) ==
    IF ~font.loads
    THEN [ok |-> FALSE, msg |-> "Error", out_filename |-> <<>>,
          path |-> PathIn(dir, stem \o DotTtf), files |-> fs,
          wrote |-> FALSE, mkdir |-> FALSE]
    ELSE LET ext == determine_output_extension(font)
             metadata == extract_font_metadata(font)
             generated == generate_output_filename(metadata, ext, force_family)
             out_filename ==
                 IF use_metadata_names /\ generated # <<>> /\ generated # ext
                 THEN generated ELSE stem \o ext
             out_path == PathIn(dir, out_filename)
         IN  IF save_raises
             THEN [ok |-> FALSE, msg |-> "Error",
                   out_filename |-> out_filename,
                   path |-> PathIn(dir, stem \o DotTtf), files |-> fs,
                   wrote |-> FALSE, mkdir |-> TRUE]
             ELSE [ok |-> TRUE, msg |-> "Converted",
                   out_filename |-> out_filename, path |-> out_path,
                   files |-> fs \cup {out_path}, wrote |-> TRUE,
                   mkdir |-> TRUE]

convert_single_file(font, stem, dir, fs, ovw, use_metadata_names, force_family, save_raises) ==
    IF ~font.loads
    THEN [ok |-> FALSE, msg |-> "Error", out_filename |-> <<>>,
          path |-> PathIn(dir, stem \o DotTtf), files |-> fs,
          wrote |-> FALSE, mkdir |-> FALSE]
    ELSE LET ext == determine_output_extension(font)
             metadata == extract_font_metadata(font)
             generated == generate_output_filename(metadata, ext, force_family)
             out_filename ==
                 IF use_metadata_names /\ generated # <<>> /\ generated # ext
                 THEN generated ELSE stem \o ext
             out_path == PathIn(dir, out_filename)
         IN  IF out_path \in fs /\ ~ovw
             THEN [ok |-> FALSE, msg |-> "Skip",
                   out_filename |-> out_filename, path |-> out_path,
                   files |-> fs, wrote |-> FALSE, mkdir |-> FALSE]
             ELSE IF save_raises
             THEN [ok |-> FALSE, msg |-> "Error",
                   out_filename |-> out_filename,
                   path |-> PathIn(dir, stem \o DotTtf), files |-> fs,
                   wrote |-> FALSE, mkdir |-> TRUE]
             ELSE [ok |-> TRUE, msg |-> "Converted",
                   out_filename |-> out_filename, path |-> out_path,
                   files |-> fs \cup {out_path}, wrote |-> TRUE,
                   mkdir |-> TRUE]


(***************************************************************************)
(* convert_woff2_to_ttf.py: main                                           *)
(*                                                                         *)
(* candidates is woff2_files, family is --force-family, results holds the  *)
(* kind of each printed message, successes and failures are success_count  *)
(* and fail_count.                                                         *)
(***************************************************************************)
FontCollection ==
    <<"F", "o", "n", "t", "C", "o", "l", "l", "e", "c", "t", "i", "o", "n">>

\* the variables no step of convert_woff2_to_ttf.main changes
convFrame ==
    <<styleVars, utility, src_exists, candidates, family, overwrite, dry_run,
      used_filenames, base_filenames, rerunVars, optVars, poolVars>>

\* mutant: a family that is empty after cleaning is kept as the key
conv_group_key_empty(font, force_family) ==
    IF ~font.loads
    THEN IF force_family # <<>> THEN force_family ELSE Unknown
    ELSE CleanFamily(IF force_family # <<>> THEN force_family
                     ELSE extract_font_metadata(font).family)

\* lines 363-379: the key of font_groups a file is appended to
conv_group_key(font, force_family) ==
    IF ~font.loads
    THEN IF force_family # <<>> THEN force_family ELSE Unknown
    ELSE LET metadata == extract_font_metadata(font)
             cleaned == CleanFamily(IF force_family # <<>> THEN force_family
                                    ELSE metadata.family)
         IN  IF cleaned # <<>> THEN cleaned ELSE Unknown

\* lines 323-353: the output name a dry run prints for a file that loads
conv_dry_name(font, stem, use_metadata_names, by_family, force_family) ==
    LET ext == determine_output_extension(font)
        metadata == extract_font_metadata(font)
        display_family == IF force_family # <<>> THEN force_family
                          ELSE metadata.family
        generated == generate_output_filename(metadata, ext, force_family)
        out_filename == IF generated # <<>> /\ generated # ext
                        THEN generated ELSE stem \o ext
    IN  IF ~use_metadata_names THEN stem \o ext
        ELSE IF by_family THEN display_family \o Slash \o out_filename
        ELSE out_filename

\* lines 297-304, 316-317 and 361-380: the precondition checks, the branch
\* to the dry run, and font_groups[''] = woff2_files without
\* --organize-by-family
ConvStart ==
    /\ pc = "c_start"
    /\ IF ~src_exists \/ candidates = <<>>
       THEN /\ pc' = "done" /\ exit_code' = 1 /\ idx' = idx
            /\ font_groups' = font_groups
       ELSE /\ exit_code' = exit_code /\ idx' = 1
            /\ pc' = IF dry_run THEN "c_dry"
                     ELSE IF organize_by_family THEN "c_group"
                     ELSE "c_convert"
            /\ font_groups' =
                   IF ~dry_run /\ ~organize_by_family
                   THEN << [key |-> <<>>,
                            members |-> [i \in DOMAIN candidates |->
                                            [path |-> i]]] >>
                   ELSE font_groups
    /\ UNCHANGED <<convFrame, out_filenames, results, successes, failures,
                   files, written, out_dir_made, converted_fonts, collections,
                   loaded>>

\* lines 318-357: one iteration of the dry-run loop
ConvDryItem ==
    /\ pc = "c_dry"
    /\ idx <= Len(candidates)
    /\ LET font == candidates[idx]
       IN  IF font.loads
           THEN /\ results' = Append(results, "Would convert")
                /\ out_filenames' =
                       Append(out_filenames,
                              conv_dry_name(font, Stem(idx), ~use_hash_names,
                                            organize_by_family, family))
           ELSE /\ results' = Append(results, "Would fail")
                /\ out_filenames' = Append(out_filenames, <<>>)
    /\ loaded' = loaded \cup {idx}
    /\ idx' = idx + 1
    /\ UNCHANGED <<convFrame, pc, exit_code, font_groups, successes, failures,
                   files, written, out_dir_made, converted_fonts, collections>>

\* line 358: the dry run returns 0
ConvDryFinish ==
    /\ pc = "c_dry"
    /\ idx > Len(candidates)
    /\ pc' = "done"
    /\ exit_code' = 0
    /\ UNCHANGED <<convFrame, idx, out_filenames, results, font_groups,
                   successes, failures, files, written, out_dir_made,
                   converted_fonts, collections, loaded>>

\* lines 364-379: one iteration of the grouping loop
ConvGroup ==
    /\ pc = "c_group"
    /\ idx <= Len(candidates)
    /\ font_groups' =
           AddToGroup(font_groups, conv_group_key(candidates[idx], family),
                      [path |-> idx])
    /\ loaded' = loaded \cup {idx}
    /\ IF idx = Len(candidates)
       THEN pc' = "c_convert" /\ idx' = 1
       ELSE pc' = pc /\ idx' = idx + 1
    /\ UNCHANGED <<convFrame, exit_code, out_filenames, results, successes,
                   failures, files, written, out_dir_made, converted_fonts,
                   collections>>

\* lines 386-400: one iteration of the inner conversion loop
ConvItem ==
    /\ pc = "c_convert"
    /\ idx <= Len(Flatten(font_groups))
    /\ \E save_raises \in BOOLEAN :
         LET item == Flatten(font_groups)[idx]
             family_out_dir == IF organize_by_family /\ item.key # <<>>
                               THEN item.key ELSE <<>>
             r == convert_single_file(candidates[item.member.path],
                                      Stem(item.member.path), family_out_dir,
                                      files,
                                      overwrite, ~use_hash_names, family,
                                      save_raises)
         IN  /\ results' = Append(results, r.msg)
             /\ out_filenames' = Append(out_filenames, r.out_filename)
             /\ successes' = IF r.ok THEN successes + 1 ELSE successes
             /\ failures' = IF r.ok THEN failures ELSE failures + 1
             /\ converted_fonts' = IF r.ok THEN Append(converted_fonts, r.path)
                                   ELSE converted_fonts
             /\ files' = r.files
             /\ written' = IF r.wrote THEN written \cup {r.path} ELSE written
             /\ out_dir_made' = (out_dir_made \/ r.mkdir)
             /\ loaded' = loaded \cup {item.member.path}
    /\ idx' = idx + 1
    /\ UNCHANGED <<convFrame, pc, exit_code, font_groups, collections>>

\* lines 409-445: the collection of the converted fonts.  fonts_load is the
\* environment: some converted file loads again; save_raises is
\* collection.save raising, which makes main return 2
ConvCollection ==
    /\ pc = "c_convert"
    /\ idx > Len(Flatten(font_groups))
    /\ create_collection /\ converted_fonts # <<>>
    /\ \E fonts_load \in BOOLEAN, save_raises \in BOOLEAN :
         LET collection_name ==
                 CleanFamily(IF family # <<>> THEN family ELSE FontCollection)
             collection_path == collection_name \o DotTtc
             by_count == IF failures = 0 THEN 0 ELSE 2
         IN  IF ~fonts_load \/ (collection_path \in files /\ ~overwrite)
             THEN /\ exit_code' = by_count
                  /\ UNCHANGED <<files, written, collections>>
             ELSE IF save_raises
             THEN /\ exit_code' = 2
                  /\ UNCHANGED <<files, written, collections>>
             ELSE /\ exit_code' = by_count
                  /\ files' = files \cup {collection_path}
                  /\ written' = written \cup {collection_path}
                  /\ collections' = collections \cup {collection_path}
    /\ pc' = "done"
    /\ UNCHANGED <<convFrame, idx, out_filenames, results, font_groups,
                   successes, failures, out_dir_made, converted_fonts, loaded>>

\* line 447: no collection is asked for or nothing was converted
ConvFinish ==
    /\ pc = "c_convert"
    /\ idx > Len(Flatten(font_groups))
    /\ ~(create_collection /\ converted_fonts # <<>>)
    /\ pc' = "done"
    /\ exit_code' = IF failures = 0 THEN 0 ELSE 2
    /\ UNCHANGED <<convFrame, idx, out_filenames, results, font_groups,
                   successes, failures, files, written, out_dir_made,
                   converted_fonts, collections, loaded>>

\* the files the glob of line 301 may find
ConvFonts ==
    { SampleRegular(DotWoff2), NoFamilyFont(DotWoff2), CorruptFile(DotWoff2) }

\* the values of --force-family: absent, or a name with a blank
ForceFamilies == {<<>>, CursorGothic}

InitConv ==
    /\ StyleIdle
    /\ utility = "convert_woff2_to_ttf"
    /\ src_exists \in BOOLEAN
    /\ candidates \in SeqsUpTo(ConvFonts, MaxFonts)
    /\ (~src_exists => candidates = <<>>)
    /\ family \in ForceFamilies
    /\ overwrite \in BOOLEAN
    /\ dry_run \in BOOLEAN
    /\ use_hash_names \in BOOLEAN
    /\ organize_by_family \in BOOLEAN
    /\ create_collection \in BOOLEAN
    /\ pc = "c_start" /\ idx = 0
    /\ used_filenames = <<>> /\ base_filenames = <<>> /\ out_filenames = <<>>
    /\ results = <<>> /\ successes = 0 /\ failures = 0
    /\ files \in {{}, {Sample \o DotTtf, Sample \o Slash \o Sample \o DotTtf}}
    /\ written = {} /\ out_dir_made = FALSE /\ exit_code = NoExit
    /\ run = 1 /\ prev_base = <<>> /\ prev_out = <<>>
    /\ GrpIdle /\ PoolIdle /\ loaded = {}

NextConv ==
    \/ ConvStart \/ ConvDryItem \/ ConvDryFinish \/ ConvGroup \/ ConvItem
    \/ ConvCollection \/ ConvFinish

SpecConv == InitConv /\ [][NextConv]_vars


\* C13: precondition failure.  When the source directory is missing or
\* holds no input font file, the utility exits with code 1, and it has
\* loaded no font, created no directory and written no file.
C13_PreconditionExit ==
    (pc = "done" /\ (~src_exists \/ candidates = <<>>))
        => /\ exit_code = 1
           /\ loaded = {} /\ ~out_dir_made /\ written = {}


\* every input of the batch got an outcome and each outcome is a success
AllItemsSucceeded ==
    /\ Len(results) = Len(candidates)
    /\ \A i \in DOMAIN results :
           results[i] \in {"Wrote", "Would write", "Converted", "Would convert"}

\* C14: exit code of a batch.  Once the preconditions pass, main returns,
\* and it returns 0 if and only if every per-file operation succeeded and 2
\* otherwise; it never ends with 1 or with an exception.
C14_BatchExitCode ==
    (src_exists /\ candidates # <<>>)
        => /\ pc # "crashed"
           /\ pc = "done"
                  => exit_code = IF AllItemsSucceeded THEN 0 ELSE 2


\* the items that were skipped because their output existed
SkippedItems == { i \in DOMAIN results : results[i] = "Skip" }

\* C16: output collision without --overwrite.  An item whose output
\* exists is skipped: the run does not write that file, the item is
\* counted in the failed/skipped total, and when the run has ended every
\* later item of the batch has been processed too.
C16_SkipAndContinue ==
    \A i \in SkippedItems :
        /\ ~overwrite
        /\ out_filenames[i] \in files
        /\ out_filenames[i] \notin written
        /\ failures >= Cardinality(SkippedItems)
        /\ pc \in {"done", "crashed"} => Len(results) = Len(candidates)


(***************************************************************************)
(* The two utilities that group fonts by family, side by side: a run is a  *)
(* run of organize_fonts_by_family or a run of convert_woff2_to_ttf.       *)
(***************************************************************************)
InitGroup == InitOrg \/ InitConv

NextGroup == NextOrg \/ NextConv

SpecGroup == InitGroup /\ [][NextGroup]_vars

\* the grouping loop of the run is over
OrgGrouped == pc \in {"o_copy", "o_coll"}
ConvGrouped == pc = "c_convert" /\ organize_by_family
Grouped == OrgGrouped \/ ConvGrouped

\* the family metadata of input i cannot be read: the file does not load,
\* or it has no name table, or no family record that decodes
Unreadable(i) ==
    \/ ~candidates[i].loads
    \/ ~candidates[i].hasName
    \/ candidates[i].family = <<>>

\* the places of input i in font_groups
PlacesOf(i) ==
    { <<g, k>> \in (DOMAIN font_groups) \X (1..Len(candidates)) :
          /\ k \in DOMAIN font_groups[g].members
          /\ font_groups[g].members[k].path = i }

KeysOf(i) == { font_groups[p[1]].key : p \in PlacesOf(i) }

\* the key a utility gives a font whose family can be read
OwnKey(i) ==
    IF OrgGrouped THEN candidates[i].family
    ELSE IF family # <<>> THEN CleanFamily(family)
    ELSE CleanFamily(candidates[i].family)

\* C17 as stated: a font whose family metadata cannot be read is in the
\* group 'Unknown', every other font is in the group of its own family
C17_UnknownGroup ==
    Grouped
        => \A i \in DOMAIN candidates :
               /\ Cardinality(PlacesOf(i)) = 1
               /\ KeysOf(i) = {IF Unreadable(i) THEN Unknown ELSE OwnKey(i)}

\* where a font with unreadable family metadata goes
FallbackKey(i) ==
    IF ConvGrouped /\ family # <<>>
    THEN IF candidates[i].loads THEN CleanFamily(family) ELSE family
    ELSE Unknown

\* C17, amended: unknown-family fallback.  After grouping, every input is
\* in exactly one group.  A font whose family metadata cannot be read is in
\* the group 'Unknown', except in convert_woff2_to_ttf with --force-family,
\* where it is in the group of the forced family (named as given when the
\* file does not load, cleaned otherwise); every other font is in the group
\* of its own family.
C17_FallbackGroup ==
    Grouped
        => \A i \in DOMAIN candidates :
               /\ Cardinality(PlacesOf(i)) = 1
               /\ KeysOf(i) = {IF Unreadable(i) THEN FallbackKey(i)
                               ELSE OwnKey(i)}

\* a file that does not load sits in the group 'Unknown' next to a font
\* grouped under its own family, in a run of either utility
C17_Witness ==
    /\ Grouped
    /\ \E i, j \in DOMAIN candidates :
           /\ ~candidates[i].loads /\ KeysOf(i) = {Unknown}
           /\ ~Unreadable(j) /\ KeysOf(j) = {Sample}


(***************************************************************************)
(* The end-to-end scenario: each of the three utilities is run on the two  *)
(* fonts of family Sample, weight 400 upright and weight 700 italic, in    *)
(* either order.  normalize_font_names gets --family Sample; convert gets  *)
(* --organize-by-family and metadata names, and no --force-family.         *)
(***************************************************************************)
E2EInputs(sfx) ==
    { <<SampleRegular(sfx), SampleBoldItalic(sfx)>>,
      <<SampleBoldItalic(sfx), SampleRegular(sfx)>> }

\* the locals of a main that has not started
RunFresh ==
    /\ StyleIdle
    /\ idx = 0
    /\ used_filenames = <<>> /\ base_filenames = <<>> /\ out_filenames = <<>>
    /\ results = <<>> /\ successes = 0 /\ failures = 0
    /\ written = {} /\ out_dir_made = FALSE /\ exit_code = NoExit
    /\ run = 1 /\ prev_base = <<>> /\ prev_out = <<>>
    /\ GrpIdle /\ PoolIdle /\ loaded = {}

InitE2E ==
    /\ RunFresh
    /\ src_exists = TRUE
    /\ overwrite \in BOOLEAN
    /\ \/ /\ utility = "normalize_font_names" /\ pc = "start"
          /\ candidates \in E2EInputs(DotTtf)
          /\ family = Sample
          /\ dry_run \in BOOLEAN
          /\ OptIdle
          /\ files \in {{}, {BaseFilename(Sample, Regular, DotTtf)}}
       \/ /\ utility = "convert_woff2_to_ttf" /\ pc = "c_start"
          /\ candidates \in E2EInputs(DotWoff2)
          /\ family = <<>>
          /\ dry_run = FALSE
          /\ use_hash_names = FALSE /\ organize_by_family = TRUE
          /\ create_collection \in BOOLEAN
          /\ files \in {{}, {Sample \o Slash \o Sample \o DotTtf}}
       \/ /\ utility = "organize_fonts_by_family" /\ pc = "o_start"
          /\ candidates \in E2EInputs(DotTtf) \cup E2EInputs(DotOtf)
          /\ family = <<>>
          /\ dry_run = FALSE
          /\ OptIdle
          /\ files \in {{}, {Sample \o Slash \o Sample \o DotTtf}}

NextE2E ==
    \/ NormStart \/ NormItem \/ NormFinish
    \/ ConvStart \/ ConvGroup \/ ConvItem \/ ConvCollection \/ ConvFinish
    \/ OrgStart \/ OrgGroup \/ OrgCopy \/ OrgCollection \/ OrgFinish

SpecE2E == InitE2E /\ [][NextE2E]_vars

\* the input whose output name is out_filenames[i]
ItemFont(i) ==
    IF utility = "normalize_font_names" THEN candidates[i]
    ELSE candidates[Flatten(font_groups)[i].member.path]

\* the extension the utility gives the output of a font
ItemExt(font) ==
    IF utility = "organize_fonts_by_family" THEN font.suffix
    ELSE IF font.cff THEN DotOtf ELSE DotTtf

\* the grouping loop of convert or organize is over
E2EGrouped ==
    /\ utility \in {"convert_woff2_to_ttf", "organize_fonts_by_family"}
    /\ pc \in {"c_convert", "o_copy", "o_coll", "done"}

\* grouping by family gave exactly one group, of size 2
OneGroupOfTwo ==
    E2EGrouped => /\ Len(font_groups) = 1
                  /\ font_groups[1].key = Sample
                  /\ Len(font_groups[1].members) = 2

\* C18 as stated: one group of size 2, and in every utility the names
\* Sample-Regular + ext and Sample-BoldItalic + ext
C18_SampleNames ==
    /\ OneGroupOfTwo
    /\ \A i \in DOMAIN out_filenames :
           LET font == ItemFont(i)
           IN  out_filenames[i] =
                   IF font.usWeightClass = 400
                   THEN Sample \o DASH \o Regular \o ItemExt(font)
                   ELSE Sample \o DASH \o Bold \o Italic \o ItemExt(font)

\* the name each utility gives the weight-400 upright font and the
\* weight-700 italic font of family Sample
E2EStyleSuffix(font) ==
    IF utility = "normalize_font_names"
    THEN IF font.usWeightClass = 400 THEN DASH \o Regular
         ELSE DASH \o Bold \o Italic
    ELSE IF utility = "convert_woff2_to_ttf"
    THEN IF font.usWeightClass = 400 THEN <<>>
         ELSE DASH \o Bold \o DASH \o Italic
    ELSE IF font.usWeightClass = 400 THEN <<>>
         ELSE DASH \o Bold \o Italic

\* C18, amended: end-to-end naming.  Grouping by family yields exactly one
\* group of size 2.  normalize_font_names names the outputs Sample-Regular
\* + ext and Sample-BoldItalic + ext; convert_woff2_to_ttf names them
\* Sample + ext and Sample-Bold-Italic + ext; organize_fonts_by_family
\* names them Sample + ext and Sample-BoldItalic + ext.  No name carries a
\* collision suffix.
C18_EndToEnd ==
    /\ OneGroupOfTwo
    /\ \A i \in DOMAIN out_filenames :
           LET font == ItemFont(i)
           IN  out_filenames[i] =
                   Sample \o E2EStyleSuffix(font) \o ItemExt(font)

\* organize_fonts_by_family has copied both fonts of the one group under
\* their names
C18_Witness ==
    /\ utility = "organize_fonts_by_family" /\ pc = "done"
    /\ Len(font_groups) = 1 /\ Len(font_groups[1].members) = 2
    /\ Len(out_filenames) = 2
    /\ written = { Sample \o Slash \o out_filenames[i] : i \in {1, 2} }
    /\ Sample \o DotTtf \in {out_filenames[1], out_filenames[2]}


(***************************************************************************)
(* font_manager.py: FONT_MAPPING                                           *)
(*                                                                         *)
(* File names, output names, styles and extensions are strings; a family   *)
(* is a sequence of characters, because the collection name is computed    *)
(* from it.  A path below the output directory is the pair of its family   *)
(* directory and its file name.                                            *)
(***************************************************************************)
Gothic == <<"G", "o", "t", "h", "i", "c">>
BerkeleyMono ==
    <<"B", "e", "r", "k", "e", "l", "e", "y", " ", "M", "o", "n", "o">>
Lato == <<"L", "a", "t", "o">>

FONT_MAPPING ==
    << [filename |-> "d3293b264284c7e4-s.p.woff2", family |-> Gothic,
        weight |-> 400, style |-> "normal",
        output_name |-> "Gothic-Regular"],
       [filename |-> "4d47f1cf2188c753-s.p.woff2", family |-> Gothic,
        weight |-> 400, style |-> "italic",
        output_name |-> "Gothic-Italic"],
       [filename |-> "da0a7633fc8b7288-s.p.woff2", family |-> Gothic,
        weight |-> 700, style |-> "normal",
        output_name |-> "Gothic-Bold"],
       [filename |-> "89358bea2c069d9d-s.p.woff2", family |-> Gothic,
        weight |-> 700, style |-> "italic",
        output_name |-> "Gothic-BoldItalic"],
       [filename |-> "c0b22bcfa1a173f2.p.woff2", family |-> BerkeleyMono,
        weight |-> 400, style |-> "normal",
        output_name |-> "BerkeleyMono-Regular"],
       [filename |-> "006940878f5e6885.p.woff2", family |-> BerkeleyMono,
        weight |-> 400, style |-> "italic",
        output_name |-> "BerkeleyMono-Italic"],
       [filename |-> "6ee7df5b3965574d-s.p.woff2", family |-> Lato,
        weight |-> 100, style |-> "italic",
        output_name |-> "Lato-ThinItalic"],
       [filename |-> "b5215411e8ce7768-s.p.woff2", family |-> Lato,
        weight |-> 300, style |-> "italic",
        output_name |-> "Lato-LightItalic"],
       [filename |-> "756f9c755543fe29-s.p.woff2", family |-> Lato,
        weight |-> 400, style |-> "italic",
        output_name |-> "Lato-Italic"],
       [filename |-> "25460892714ab800-s.p.woff2", family |-> Lato,
        weight |-> 700, style |-> "italic",
        output_name |-> "Lato-BoldItalic"],
       [filename |-> "9364c9a9ce248cb1-s.p.woff2", family |-> Lato,
        weight |-> 900, style |-> "italic",
        output_name |-> "Lato-BlackItalic"],
       [filename |-> "55c20a7790588da9-s.p.woff2", family |-> Lato,
        weight |-> 100, style |-> "normal",
        output_name |-> "Lato-Thin"],
       [filename |-> "155cae559bbd1a77-s.p.woff2", family |-> Lato,
        weight |-> 300, style |-> "normal",
        output_name |-> "Lato-Light"],
       [filename |-> "4de1fea1a954a5b6-s.p.woff2", family |-> Lato,
        weight |-> 400, style |-> "normal",
        output_name |-> "Lato-Regular"],
       [filename |-> "6d664cce900333ee-s.p.woff2", family |-> Lato,
        weight |-> 700, style |-> "normal",
        output_name |-> "Lato-Bold"],
       [filename |-> "7ff6869a1704182a-s.p.woff2", family |-> Lato,
        weight |-> 900, style |-> "normal",
        output_name |-> "Lato-Black"] >>

\* the tasks of a pool: the model submits NumTasks entries of FONT_MAPPING,
\* from the third on: two fonts of the family Gothic, then the fonts of
\* Berkeley Mono
Tasks == 1..NumTasks

TaskEntry(t) == FONT_MAPPING[t + 2]

Extensions == {".ttf", ".otf"}

\* mutant: the output file is named after the family alone
output_path_by_family(entry, ext) ==
    <<entry.family, "font" \o ext>>

\* convert_font lines 263-268: family_dir / (output_name + ext)
output_path(entry, ext) ==
    <<entry.family, entry.output_name \o ext>>

(***************************************************************************)
(* font_manager.py: the two worker pools                                   *)
(*                                                                         *)
(* task_state[t] is the future of task t: st is "none" (not submitted),    *)
(* "pending" (submitted, no worker yet), "running", or the way the call    *)
(* ended: "ok", "failed" (the function returned a failure) or "raised"     *)
(* (an exception is stored in the future); collected says that the         *)
(* as_completed loop has handled the future; result is the returned path.  *)
(* results[t] are the error messages logged for task t.                    *)
(***************************************************************************)
DownloadsDir == <<"d", "o", "w", "n", "l", "o", "a", "d", "s">>

local_path(entry) == <<DownloadsDir, entry.filename>>

NoFuture == [st |-> "none", collected |-> FALSE, result |-> <<>>]

\* mutant: every entry of FONT_MAPPING is submitted again, whatever became
\* of it before
Submit_all(S) ==
    [t \in Tasks |-> [NoFuture EXCEPT !.st = "pending"]]

\* executor.submit for every task of S (lines 190-193, 287-290)
Submit(S) ==
    [t \in Tasks |-> IF t \in S THEN [NoFuture EXCEPT !.st = "pending"]
                     ELSE NoFuture]

Running == { t \in Tasks : task_state[t].st = "running" }

Finished(t) == task_state[t].st \in {"ok", "failed", "raised"}

\* mutant: the pool is left as soon as one future has been collected
AllCollected_any ==
    \E t \in Tasks : task_state[t].collected

AllCollected ==
    \A t \in Tasks : task_state[t].st # "none" => task_state[t].collected

\* the members of a list, as a set
Range(q) == { q[i] : i \in DOMAIN q }

\* the variables no step of font_manager changes
fmFrame ==
    <<styleVars, utility, src_exists, candidates, family, overwrite, dry_run,
      used_filenames, base_filenames, out_filenames, successes, failures,
      written, rerunVars, optVars, font_groups, converted_fonts, loaded,
      max_workers, skip_download, collections_only, clean>>

\* a worker thread of the pool takes a submitted task; at most max_workers
\* tasks run at a time
TaskStart(t) ==
    /\ pc \in {"f_download", "f_convert"}
    /\ task_state[t].st = "pending"
    /\ Cardinality(Running) < max_workers
    /\ task_state' = [task_state EXCEPT ![t].st = "running"]
    /\ UNCHANGED <<fmFrame, pc, idx, exit_code, files, out_dir_made,
                   collections, downloads, downloaded_fonts,
                   converted_by_family, reads, writes, results>>

\* download_font, lines 165-180.  outcome is the environment: urlretrieve
\* returns, raises URLError, or raises another exception
DownloadFinish(t) ==
    /\ pc = "f_download"
    /\ task_state[t].st = "running"
    /\ LET entry == TaskEntry(t)
       IN  IF t \in downloads
           THEN /\ task_state' =
                       [task_state EXCEPT ![t].st = "ok",
                                          ![t].result = local_path(entry)]
                /\ UNCHANGED <<downloads, writes, results>>
           ELSE \E outcome \in {"ok", "failed", "raised"} :
                  /\ task_state' =
                         [task_state EXCEPT
                              ![t].st = outcome,
                              ![t].result = IF outcome = "ok"
                                            THEN local_path(entry) ELSE <<>>]
                  /\ downloads' = IF outcome = "ok" THEN downloads \cup {t}
                                  ELSE downloads
                  /\ writes' = IF outcome = "ok"
                               THEN [writes EXCEPT
                                         ![t] = Append(@, local_path(entry))]
                               ELSE writes
                  /\ results' = IF outcome = "failed"
                                THEN [results EXCEPT
                                          ![t] = Append(@, "Failed to download")]
                                ELSE results
    /\ UNCHANGED <<fmFrame, pc, idx, exit_code, files, out_dir_made,
                   collections, downloaded_fonts, converted_by_family, reads>>

\* mutant: future.result() is not guarded, the stored exception leaves the
\* loop and reaches the handler of main
DownloadCollect_unguarded(t) ==
    /\ pc = "f_download"
    /\ Finished(t) /\ ~task_state[t].collected
    /\ IF task_state[t].st = "raised"
       THEN /\ pc' = "done" /\ exit_code' = 1
            /\ UNCHANGED <<task_state, downloaded_fonts>>
       ELSE /\ task_state' = [task_state EXCEPT ![t].collected = TRUE]
            /\ downloaded_fonts' = IF task_state[t].st = "ok"
                                   THEN Append(downloaded_fonts, t)
                                   ELSE downloaded_fonts
            /\ UNCHANGED <<pc, exit_code>>
    /\ UNCHANGED <<fmFrame, idx, files, out_dir_made, collections, downloads,
                   converted_by_family, reads, writes, results>>

\* lines 196-203: one iteration of the as_completed loop of the downloads
DownloadCollect(t) ==
    /\ pc = "f_download"
    /\ Finished(t) /\ ~task_state[t].collected
    /\ task_state' = [task_state EXCEPT ![t].collected = TRUE]
    /\ downloaded_fonts' = IF task_state[t].st = "ok"
                           THEN Append(downloaded_fonts, t)
                           ELSE downloaded_fonts
    /\ results' = IF task_state[t].st = "raised"
                  THEN [results EXCEPT ![t] = Append(@, "Download failed")]
                  ELSE results
    /\ UNCHANGED <<fmFrame, pc, idx, exit_code, files, out_dir_made,
                   collections, downloads, converted_by_family, reads, writes>>

\* convert_font, lines 230-277.  outcome is the environment: the font
\* loads and is saved with one of the two extensions, or some step raises
\* and the function returns None
ConvertFinish(t) ==
    /\ pc = "f_convert"
    /\ task_state[t].st = "running"
    /\ \E outcome \in Extensions \cup {"failed"} :
         LET entry == TaskEntry(t)
             path == output_path(entry, outcome)
         IN  /\ reads' = [reads EXCEPT ![t] = Append(@, local_path(entry))]
             /\ IF outcome = "failed"
                THEN /\ task_state' = [task_state EXCEPT ![t].st = "failed"]
                     /\ results' =
                            [results EXCEPT ![t] = Append(@, "Error converting")]
                     /\ UNCHANGED <<files, writes>>
                ELSE /\ task_state' = [task_state EXCEPT ![t].st = "ok",
                                                         ![t].result = path]
                     /\ files' = files \cup {path}
                     /\ writes' = [writes EXCEPT ![t] = Append(@, path)]
                     /\ results' = results
    /\ UNCHANGED <<fmFrame, pc, idx, exit_code, out_dir_made, collections,
                   downloads, downloaded_fonts, converted_by_family>>

\* lines 293-303: one iteration of the as_completed loop of the conversions
ConvertCollect(t) ==
    /\ pc = "f_convert"
    /\ Finished(t) /\ ~task_state[t].collected
    /\ task_state' = [task_state EXCEPT ![t].collected = TRUE]
    /\ converted_by_family' =
           IF task_state[t].st = "ok"
           THEN AddToGroup(converted_by_family, TaskEntry(t).family,
                           task_state[t].result)
           ELSE converted_by_family
    /\ UNCHANGED <<fmFrame, pc, idx, exit_code, files, out_dir_made,
                   collections, downloads, downloaded_fonts, reads, writes,
                   results>>

(***************************************************************************)
(* font_manager.py: main                                                   *)
(***************************************************************************)
\* a list of the members of a set, in some order
RECURSIVE SetToSeq(_)
SetToSeq(S) ==
    IF S = {} THEN <<>>
    ELSE LET x == CHOOSE y \in S : TRUE
         IN  <<x>> \o SetToSeq(S \ {x})

\* lines 457-460: the entries whose file is in the downloads directory, in
\* the order of FONT_MAPPING
RECURSIVE ExistingDownloads(_)
ExistingDownloads(t) ==
    IF t > NumTasks THEN <<>>
    ELSE (IF t \in downloads THEN <<t>> ELSE <<>>) \o ExistingDownloads(t + 1)

\* lines 474-480: the font files of the family directories that exist
RECURSIVE ExistingConverted(_, _)
ExistingConverted(fs, families) ==
    IF families = <<>> THEN <<>>
    ELSE LET fonts == { f \in fs : f[1] = Head(families) }
         IN  (IF fonts # {}
              THEN << [key |-> Head(families), members |-> SetToSeq(fonts)] >>
              ELSE <<>>)
             \o ExistingConverted(fs, Tail(families))

\* lines 434-465: --clean, the constructor of FontProcessor, and the start
\* of phase 1.  ThreadPoolExecutor raises ValueError for max_workers <= 0;
\* main catches it at line 493 and returns 1
FmStart ==
    /\ pc = "f_start"
    /\ files' = IF clean THEN {} ELSE files
    /\ out_dir_made' = TRUE
    /\ IF ~skip_download /\ ~collections_only
       THEN /\ downloaded_fonts' = downloaded_fonts
            /\ IF max_workers <= 0
               THEN /\ pc' = "done" /\ exit_code' = 1
                    /\ task_state' = task_state
               ELSE /\ pc' = "f_download" /\ exit_code' = exit_code
                    /\ task_state' = Submit(Tasks)
       ELSE /\ downloaded_fonts' = ExistingDownloads(1)
            /\ task_state' = task_state
            /\ IF downloaded_fonts' = <<>>
               THEN pc' = "done" /\ exit_code' = 1
               ELSE pc' = "f_phase2" /\ exit_code' = exit_code
    /\ UNCHANGED <<fmFrame, idx, collections, downloads, converted_by_family,
                   reads, writes, results>>

\* lines 205-206 and 451-453: every future is collected, the pool is shut
\* down, download_all_fonts returns
DownloadsDone ==
    /\ pc = "f_download"
    /\ AllCollected
    /\ IF downloaded_fonts = <<>>
       THEN pc' = "done" /\ exit_code' = 1
       ELSE pc' = "f_phase2" /\ exit_code' = exit_code
    /\ UNCHANGED <<fmFrame, idx, files, out_dir_made, collections, downloads,
                   task_state, downloaded_fonts, converted_by_family, reads,
                   writes, results>>

\* lines 467-480: the start of phase 2
FmPhase2 ==
    /\ pc = "f_phase2"
    /\ IF ~collections_only
       THEN /\ converted_by_family' = converted_by_family
            /\ idx' = idx
            /\ IF max_workers <= 0
               THEN /\ pc' = "done" /\ exit_code' = 1
                    /\ task_state' = task_state
               ELSE /\ pc' = "f_convert" /\ exit_code' = exit_code
                    /\ task_state' = Submit(Range(downloaded_fonts))
       ELSE /\ converted_by_family' =
                   ExistingConverted(files, <<Gothic, BerkeleyMono, Lato>>)
            /\ pc' = "f_collections" /\ idx' = 1
            /\ exit_code' = exit_code
            /\ task_state' = task_state
    /\ UNCHANGED <<fmFrame, files, out_dir_made, collections, downloads,
                   downloaded_fonts, reads, writes, results>>

\* lines 305 and 469-471: convert_all_fonts returns
ConversionsDone ==
    /\ pc = "f_convert"
    /\ AllCollected
    /\ IF converted_by_family = <<>>
       THEN pc' = "done" /\ exit_code' = 1 /\ idx' = idx
       ELSE pc' = "f_collections" /\ exit_code' = exit_code /\ idx' = 1
    /\ UNCHANGED <<fmFrame, files, out_dir_made, collections, downloads,
                   task_state, downloaded_fonts, converted_by_family, reads,
                   writes, results>>

\* create_font_collections, lines 311-336: one iteration.  saved is the
\* environment: every font of the family loads and collection.save
\* succeeds
FmCollection ==
    /\ pc = "f_collections"
    /\ idx <= Len(converted_by_family)
    /\ LET family_name == converted_by_family[idx].key
           collection_path ==
               <<family_name, RemoveSpaces(family_name) \o DotTtc>>
           \* line 323: collection.fonts are the fonts loaded from font_paths
           collection == [path |-> collection_path,
                          fonts |-> converted_by_family[idx].members]
       IN  IF Len(converted_by_family[idx].members) < 2
           THEN collections' = collections
           ELSE \E saved \in BOOLEAN :
                  collections' = IF saved
                                 THEN collections \cup {collection}
                                 ELSE collections
    /\ idx' = idx + 1
    /\ UNCHANGED <<fmFrame, pc, exit_code, files, out_dir_made, downloads,
                   task_state, downloaded_fonts, converted_by_family, reads,
                   writes, results>>

\* lines 486-488: the report is printed and main returns 0
FmFinish ==
    /\ pc = "f_collections"
    /\ idx > Len(converted_by_family)
    /\ pc' = "done"
    /\ exit_code' = 0
    /\ UNCHANGED <<fmFrame, idx, files, out_dir_made, collections, downloads,
                   task_state, downloaded_fonts, converted_by_family, reads,
                   writes, results>>

InitFM ==
    /\ StyleIdle
    /\ utility = "font_manager"
    /\ src_exists = FALSE /\ candidates = <<>> /\ family = <<>>
    /\ overwrite = FALSE /\ dry_run = FALSE
    /\ pc = "f_start" /\ idx = 0
    /\ used_filenames = <<>> /\ base_filenames = <<>> /\ out_filenames = <<>>
    /\ results = [t \in Tasks |-> <<>>]
    /\ successes = 0 /\ failures = 0
    /\ files \in {{}, {output_path(TaskEntry(1), ".ttf"),
                       output_path(TaskEntry(2), ".otf")}}
    /\ written = {} /\ out_dir_made = FALSE /\ exit_code = NoExit
    /\ run = 1 /\ prev_base = <<>> /\ prev_out = <<>>
    /\ OptIdle /\ GrpIdle /\ loaded = {}
    /\ max_workers \in 0..MaxWorkers
    /\ skip_download \in BOOLEAN
    /\ collections_only \in BOOLEAN
    /\ clean \in BOOLEAN
    /\ downloads \in SUBSET Tasks
    /\ task_state = Submit({})
    /\ downloaded_fonts = <<>> /\ converted_by_family = <<>>
    /\ reads = [t \in Tasks |-> <<>>]
    /\ writes = [t \in Tasks |-> <<>>]

NextFM ==
    \/ FmStart
    \/ \E t \in Tasks : TaskStart(t)
    \/ \E t \in Tasks : DownloadFinish(t)
    \/ \E t \in Tasks : DownloadCollect(t)
    \/ DownloadsDone
    \/ FmPhase2
    \/ \E t \in Tasks : ConvertFinish(t)
    \/ \E t \in Tasks : ConvertCollect(t)
    \/ ConversionsDone
    \/ FmCollection
    \/ FmFinish

SpecFM == InitFM /\ [][NextFM]_vars


\* a download or a conversion of task t failed: an error was logged for it
TaskFailed(t) == results[t] # <<>>

\* task t was downloaded (or found in the downloads directory) and nothing
\* failed for it
TaskSucceeded(t) == t \in Range(downloaded_fonts) /\ results[t] = <<>>

\* C15: exit code of the pipeline.  When font_manager.main has run and one
\* task failed while another succeeded, it exits with code 2.
C15_PartialFailureExit ==
    (utility = "font_manager" /\ pc = "done"
         /\ \E t, u \in Tasks : t # u /\ TaskFailed(t) /\ TaskSucceeded(u))
        => exit_code = 2


(***************************************************************************)
(* font_manager with its scheduling: every worker thread that can take or  *)
(* finish a task does so, a blocking call of a task returns, and the main  *)
(* thread goes on.                                                         *)
(***************************************************************************)
MainThread ==
    \/ FmStart
    \/ \E t \in Tasks : DownloadCollect(t)
    \/ DownloadsDone
    \/ FmPhase2
    \/ \E t \in Tasks : ConvertCollect(t)
    \/ ConversionsDone
    \/ FmCollection
    \/ FmFinish

FairFM ==
    /\ WF_vars(MainThread)
    /\ \A t \in Tasks : /\ WF_vars(TaskStart(t))
                        /\ WF_vars(DownloadFinish(t))
                        /\ WF_vars(ConvertFinish(t))

\* the runs in which the pools work: no --collections-only; the output
\* directory starts empty
InitPools == InitFM /\ ~collections_only /\ ~clean /\ files = {}

SpecPools == InitPools /\ [][NextFM]_vars /\ FairFM

\* the number of times x is in the list q
Count(q, x) == Cardinality({ i \in DOMAIN q : q[i] = x })

\* the number of times the output of conversion task t is in
\* converted_by_family
CountConverted(t) ==
    Cardinality({ <<g, k>> \in (DOMAIN converted_by_family) \X Tasks :
                      /\ k \in DOMAIN converted_by_family[g].members
                      /\ converted_by_family[g].key = TaskEntry(t).family
                      /\ converted_by_family[g].members[k]
                             \in { output_path(TaskEntry(t), x) :
                                       x \in Extensions } })

\* a collected task that succeeded is in the result exactly once, any
\* other task is not in it; a task that failed or raised has been logged
\* once its future is collected
CollectedOnce ==
    \A t \in Tasks :
        /\ pc = "f_download"
               => Count(downloaded_fonts, t) =
                      IF task_state[t].st = "ok" /\ task_state[t].collected
                      THEN 1 ELSE 0
        /\ pc = "f_convert"
               => CountConverted(t) =
                      IF task_state[t].st = "ok" /\ task_state[t].collected
                      THEN 1 ELSE 0
        /\ (pc \in {"f_download", "f_convert"}
                /\ task_state[t].st \in {"failed", "raised"}
                /\ task_state[t].collected)
               => Len(results[t]) = 1

\* C19: worker-pool failure isolation.  In both pools and under every
\* interleaving, a failure or exception of a task is logged and leaves the
\* other tasks alone: every submitted task eventually completes and is
\* collected, and a task that succeeded is in the collected result exactly
\* once.
C19_PoolIsolation ==
    /\ []CollectedOnce
    /\ \A t \in Tasks :
           (task_state[t].st = "pending")
               ~> (Finished(t) /\ task_state[t].collected)

\* the downloads are all collected: one raised an exception, which was
\* logged, and the other is in the result
C19_Witness ==
    /\ pc = "f_download" /\ AllCollected
    /\ \E t, u \in Tasks :
           /\ task_state[t].st = "raised" /\ results[t] # <<>>
           /\ task_state[u].st = "ok" /\ Count(downloaded_fonts, u) = 1


\* no two entries of FONT_MAPPING name the same input file or the same
\* output file, whatever extensions the conversions choose
MappingDistinct ==
    \A i, j \in DOMAIN FONT_MAPPING :
        i # j => /\ local_path(FONT_MAPPING[i]) # local_path(FONT_MAPPING[j])
                 /\ \A x, y \in Extensions :
                        output_path(FONT_MAPPING[i], x)
                            # output_path(FONT_MAPPING[j], y)

\* C20: distinct outputs per task.  Any two different tasks of a run read
\* different input files and write different files, in every interleaving
\* of the pools; this holds for all entries of FONT_MAPPING.
C20_DistinctOutputs ==
    utility = "font_manager"
        => /\ MappingDistinct
           /\ \A t, u \in Tasks :
                  t # u => /\ Range(reads[t]) \cap Range(reads[u]) = {}
                           /\ Range(writes[t]) \cap Range(writes[u]) = {}

\* both conversion tasks have run side by side and each has read its input
\* and written a file
C20_Witness ==
    /\ pc = "f_convert"
    /\ \A t \in Tasks : /\ task_state[t].st = "ok"
                        /\ ~task_state[t].collected
                        /\ Len(reads[t]) = 1
                        /\ writes[t] # <<>>
                        /\ writes[t][Len(writes[t])] = task_state[t].result
    /\ max_workers > 1


\* the download of task t failed: download_font logged the URLError or the
\* collector logged the exception
DownloadFailed(t) ==
    /\ results[t] # <<>>
    /\ results[t][1] \in {"Failed to download", "Download failed"}

\* the place of a phase of main in the run
PhaseRank ==
    CASE pc = "f_start" -> 0
      [] pc = "f_download" -> 1
      [] pc = "f_phase2" -> 2
      [] pc = "f_convert" -> 3
      [] pc = "f_collections" -> 4
      [] OTHER -> 5

\* the place of a state of a future in its life
StateRank(st) ==
    CASE st = "none" -> 0
      [] st = "pending" -> 1
      [] st = "running" -> 2
      [] OTHER -> 3

\* what has been attempted and reported for each task so far
AttemptedOnce ==
    \A t \in Tasks :
        /\ Len(reads[t]) <= 1
        /\ Count(writes[t], local_path(TaskEntry(t))) <= 1
        /\ Len(writes[t]) <= 2
        /\ Len(results[t]) <= 1
        /\ DownloadFailed(t)
               => /\ reads[t] = <<>>
                  /\ Count(downloaded_fonts, t) = 0
                  /\ pc = "f_convert" => task_state[t].st = "none"
        /\ (results[t] # <<>> /\ ~collections_only) => CountConverted(t) = 0

\* a future only moves forward within a phase, so that a task that
\* finished is not run a second time in its pool
FutureForward ==
    \A t \in Tasks :
        task_state'[t].st # task_state[t].st
            => IF pc' = pc
               THEN StateRank(task_state'[t].st) > StateRank(task_state[t].st)
               ELSE PhaseRank' > PhaseRank

\* C21: no retry.  Within one run of font_manager each input file is
\* downloaded at most once and converted at most once; a file whose
\* download or conversion failed is reported once and nothing more is
\* attempted on it.
C21_NoRetry ==
    /\ []AttemptedOnce
    /\ [][FutureForward]_vars

\* the conversions are all collected: the download of one task failed and
\* it was not submitted again, the conversion of another failed and was
\* reported once
C21_Witness ==
    /\ pc = "f_convert" /\ AllCollected
    /\ \E t, u \in Tasks :
           /\ DownloadFailed(t) /\ task_state[t].st = "none"
           /\ task_state[u].st = "failed" /\ Len(reads[u]) = 1
           /\ results[u] = <<"Error converting">>


\* main has ended: it returned, or an exception left it
RunEnded == pc \in {"done", "crashed"}

\* the outcomes a batch run logs for an item
Outcomes == {"Wrote", "Would write", "Converted", "Would convert", "Skip",
             "Error", "Would fail"}

\* C22: run to completion.  When a batch run of normalize_font_names or of
\* convert_woff2_to_ttf that passed the preconditions has ended, every
\* input file has exactly one outcome and successes + failures is the
\* number of input files.
C22_RunToCompletion ==
    (utility \in {"normalize_font_names", "convert_woff2_to_ttf"}
         /\ src_exists /\ candidates # <<>> /\ RunEnded)
        => /\ Len(results) = Len(candidates)
           /\ \A i \in DOMAIN results : results[i] \in Outcomes
           /\ successes + failures = Len(candidates)


(***************************************************************************)
(* The two batch utilities side by side: a run of normalize_font_names or  *)
(* a run of convert_woff2_to_ttf.                                          *)
(***************************************************************************)
InitBatch == Init \/ InitConv

NextBatch == Next \/ NextConv

SpecBatch == InitBatch /\ [][NextBatch]_vars

\* the input file the current iteration of the loop works on
CurrentItem ==
    IF utility = "normalize_font_names" THEN idx
    ELSE Flatten(font_groups)[idx].member.path

\* the step creates or replaces a font file of the output directory
WritesFont ==
    /\ files' # files \/ written' # written
    /\ collections' = collections

\* the font of the current item was loaded and its names were rewritten:
\* TTFont did not raise, and set_name did not raise in normalize_one_font
\* (rename_font_family of convert_woff2_to_ttf returns without a name table)
ItemReady ==
    LET font == candidates[CurrentItem]
    IN  /\ font.loads
        /\ utility = "normalize_font_names" => font.hasName

\* C23: write only when ready.  A step of a batch run creates or replaces
\* an output font file only for an item whose font loaded and whose name
\* rewriting did not raise, and it is that item's success; for an item
\* whose load or rewrite raised, no file is created or modified.
C23_WriteOnlyWhenReady ==
    [][WritesFont
           => /\ pc \in {"loop", "c_convert"}
              /\ idx \in 1..Len(candidates)
              /\ ItemReady
              /\ Len(results') = Len(results) + 1
              /\ results'[Len(results')] \in {"Wrote", "Converted"}]_vars

\* a run has written the font of one item and has logged an error, writing
\* nothing, for an item whose names could not be rewritten
C23_Witness ==
    /\ utility = "normalize_font_names" /\ pc = "done"
    /\ \E i, j \in DOMAIN results :
           /\ results[i] = "Wrote" /\ out_filenames[i] \in written
           /\ results[j] = "Error"
           /\ candidates[j].loads /\ ~candidates[j].hasName
           /\ out_filenames[j] \notin files


(***************************************************************************)
(* Style resolution on fonts whose two style bitfields carry other bits    *)
(* next to the italic ones: fsSelection with UNDERSCORE (0x02), BOLD       *)
(* (0x20) and REGULAR (0x40), macStyle with bold (0x01).                   *)
(***************************************************************************)
ItalicFonts ==
    { MkFont(w, fs, TRUE, mac, FALSE) :
          w \in {400, 700}, fs \in {0, 1, 2, 3, 32, 33, 64, 65},
          mac \in {0, 1, 2, 3} }
      \cup { MkFont(w, fs, FALSE, 0, FALSE) :
                 w \in {400, 700}, fs \in {0, 1, 2, 3, 32, 33, 64, 65} }
      \cup { MkFontNoOS2(hd, mac, FALSE) :
                 hd \in BOOLEAN, mac \in {0, 1, 2, 3} }

InitItalic ==
    /\ \E f \in ItalicFonts : fonts_in = <<f>>
    /\ weight_names = <<>> /\ styles_out = <<>>
    /\ RunIdle

SpecItalic == InitItalic /\ [][Resolve]_vars

\* bit 0x01 of the style-selection bitfield of a font that has one
StyleSelectionItalic(f) == f.hasOS2 /\ f.fsSelection % 2 = 1

\* bit 0x02 of the legacy style bitfield of a font that has one
LegacyItalic(f) == f.hasHead /\ (f.macStyle \div 2) % 2 = 1

\* C24: italic derivation.  is_italic is true exactly when the italic bit
\* 0x01 of the style-selection bitfield or the italic bit 0x02 of the
\* legacy style bitfield is set, a missing or unreadable bitfield counting
\* as clear; the style returned for the font carries "Italic" exactly
\* then.
C24_ItalicDerivation ==
    \A i \in Resolved :
        LET f == fonts_in[i]
            italic == StyleSelectionItalic(f) \/ LegacyItalic(f)
        IN  /\ is_italic(f) = italic
            /\ styles_out[i] = style_names(weight_names[i], italic)
            /\ italic <=> /\ Len(styles_out[i].ps) >= Len(Italic)
                          /\ SubSeq(styles_out[i].ps,
                                    Len(styles_out[i].ps) - Len(Italic) + 1,
                                    Len(styles_out[i].ps)) = Italic

\* a font whose style-selection bitfield has other bits but not the italic
\* one, and whose legacy bitfield has the bold and the italic bit, was
\* resolved as italic by the legacy bit
C24_Witness ==
    /\ Resolved # {}
    /\ fonts_in[1].hasOS2 /\ fonts_in[1].fsSelection = 2
    /\ fonts_in[1].usWeightClass = 400
    /\ fonts_in[1].hasHead /\ fonts_in[1].macStyle = 3
    /\ is_italic(fonts_in[1])
    /\ styles_out[1].ps = Italic


\* no future of the pool is waiting for a worker or running
PoolQuiet == \A t \in Tasks : task_state[t].st \notin {"pending", "running"}

\* a step in which a worker takes a conversion task or convert_font reads
\* its input
ConversionStarts ==
    \/ /\ pc' = "f_convert"
       /\ \E t \in Tasks : /\ task_state[t].st # "running"
                           /\ task_state'[t].st = "running"
    \/ reads' # reads

\* the conversions are submitted only when the download pool is quiet and
\* run only in phase 2; a collection is created only in phase 3, when the
\* conversion pool is quiet
PhasesInOrder ==
    /\ (pc # "f_convert" /\ pc' = "f_convert") => PoolQuiet
    /\ ConversionStarts => pc = "f_convert"
    /\ collections' # collections => pc = "f_collections" /\ PoolQuiet

\* the paths of the fonts that conversion tasks of this run saved for a
\* family
ConvertedInRun(family_name) ==
    { task_state[t].result :
          t \in { u \in Tasks : /\ task_state[u].st = "ok"
                                /\ task_state[u].collected
                                /\ TaskEntry(u).family = family_name } }

\* every collection holds at least 2 fonts, all of them converted by this
\* run for the family of the collection
CollectionsOfConverted ==
    \A c \in collections :
        /\ Len(c.fonts) >= 2
        /\ Range(c.fonts) \subseteq ConvertedInRun(c.path[1])

\* C25 as stated: pipeline phase order in font_manager.main.  No conversion
\* task starts before every download task has completed, no collection is
\* created before every conversion task has completed, and a collection is
\* created only for a family with at least 2 successfully converted fonts
\* and contains only fonts reported as converted for that family.
C25_PhaseOrder ==
    /\ [][PhasesInOrder]_vars
    /\ [](utility = "font_manager" => CollectionsOfConverted)

\* C25, amended: the phases are in order; a collection holds at least 2
\* fonts of its family: without --collections-only fonts that conversion
\* tasks of this run saved, with --collections-only the font files found
\* in the directory of the family.
C25_PhaseOrderAmended ==
    /\ [][PhasesInOrder]_vars
    /\ [](utility = "font_manager"
              => \A c \in collections :
                     /\ Len(c.fonts) >= 2
                     /\ \A i, j \in DOMAIN c.fonts :
                            i # j => c.fonts[i] # c.fonts[j]
                     /\ IF collections_only
                        THEN Range(c.fonts) =
                                 { f \in files : f[1] = c.path[1] }
                        ELSE Range(c.fonts) \subseteq ConvertedInRun(c.path[1]))

\* a run without --collections-only has ended with a collection of the two
\* fonts of one family that its conversion tasks saved
C25_Witness ==
    /\ utility = "font_manager" /\ pc = "done" /\ ~collections_only
    /\ \E c \in collections :
           /\ Len(c.fonts) = 2
           /\ Range(c.fonts) = ConvertedInRun(c.path[1])


\* C26: dry-run agrees with the real run in normalize_font_names.  A second
\* run over the same ordered inputs and the same family gives every input
\* the output filename of the first run, collision suffixes included,
\* whatever --dry-run and --overwrite are in either run and whatever the
\* first run left in the output directory.
C26_DryRunAgrees ==
    (utility = "normalize_font_names" /\ run = 2)
        => /\ Len(out_filenames) <= Len(prev_out)
           /\ \A i \in DOMAIN out_filenames : out_filenames[i] = prev_out[i]
           /\ pc = "done" => out_filenames = prev_out

\* a dry run has ended after a real run of the same inputs that wrote its
\* files: both gave the second input the name with the collision suffix
C26_Witness ==
    /\ utility = "normalize_font_names" /\ run = 2 /\ pc = "done" /\ dry_run
    /\ Len(out_filenames) >= 2
    /\ \A i \in DOMAIN results : results[i] = "Would write"
    /\ out_filenames[2] # base_filenames[2]
    /\ out_filenames = prev_out
    /\ \A i \in DOMAIN prev_out : prev_out[i] \in files


\* the items the conversion loop of convert_woff2_to_ttf has handled
Converting ==
    utility = "convert_woff2_to_ttf" /\ ~dry_run /\ pc \in {"c_convert", "done"}

\* the output path that the k-th item of the conversion loop derived
ItemPath(k) ==
    LET key == Flatten(font_groups)[k].key
    IN  PathIn(IF organize_by_family /\ key # <<>> THEN key ELSE <<>>,
               out_filenames[k])

\* the pairs of handled items, the first before the second, that derived
\* the same output path
SamePath ==
    { <<i, j>> \in (DOMAIN results) \X (DOMAIN results) :
          /\ i < j
          /\ out_filenames[i] # <<>> /\ out_filenames[j] # <<>>
          /\ ItemPath(i) = ItemPath(j) }

\* the list of converted paths holds no path twice
NoPathTwice ==
    \A a, b \in DOMAIN converted_fonts :
        a # b => converted_fonts[a] # converted_fonts[b]

\* every item that did not succeed is counted as failed
FailuresCounted ==
    /\ failures = Cardinality({ k \in DOMAIN results : results[k] # "Converted" })
    /\ successes = Cardinality({ k \in DOMAIN results : results[k] = "Converted" })

\* C27 as stated: no overwrite between items of one run of
\* convert_woff2_to_ttf without --overwrite.  When two inputs derive the
\* same output path, the second is skipped and counted as failed, and the
\* list of converted paths holds no path twice.
C27_SecondSkipped ==
    (Converting /\ ~overwrite)
        => /\ \A p \in SamePath : results[p[2]] = "Skip"
           /\ FailuresCounted
           /\ NoPathTwice

\* C27, amended: of the inputs that derive the same output path at most one
\* is written; once one of them was written or found the file in place,
\* every later one is skipped and counted as failed; the list of converted
\* paths holds no path twice.  A later input is written only when the save
\* of every earlier one raised.
C27_NoOverwriteBetweenItems ==
    (Converting /\ ~overwrite)
        => /\ \A p \in SamePath :
                  /\ ~(results[p[1]] = "Converted" /\ results[p[2]] = "Converted")
                  /\ results[p[1]] \in {"Converted", "Skip"}
                         => results[p[2]] = "Skip"
                  /\ results[p[2]] = "Converted" => results[p[1]] = "Error"
           /\ FailuresCounted
           /\ NoPathTwice

\* a run without --overwrite into an empty directory has ended: of two
\* inputs with the same output path the first was written and the second
\* skipped and counted as failed
C27_Witness ==
    /\ Converting /\ ~overwrite /\ pc = "done"
    /\ \E p \in SamePath :
           /\ results[p[1]] = "Converted" /\ results[p[2]] = "Skip"
           /\ ItemPath(p[1]) \in written
           /\ Count(converted_fonts, ItemPath(p[1])) = 1
    /\ failures >= 1


(***************************************************************************)
(* The two weight-naming rules on the same font: weight_to_name of         *)
(* normalize_font_names and extract_font_metadata of convert_woff2_to_ttf. *)
(* Here styles_out holds the metadata that extract_font_metadata returns.  *)
(***************************************************************************)
\* the standard weights, weights between them, and weights outside 100..900
WeightSamples ==
    TableKeys \cup {50, 150, 250, 350, 450, 550, 950, 1000}

WeightFonts ==
    { Named(MkFont(w, fs, TRUE, 0, FALSE), Sample, Regular, <<>>, {}, DotWoff2) :
          w \in WeightSamples, fs \in {0, 1, 32, 33} }

CompareWeights ==
    /\ Len(styles_out) < Len(fonts_in)
    /\ LET font == fonts_in[Len(styles_out) + 1]
       IN  /\ weight_names' = Append(weight_names,
                                     weight_to_name(font_weight(font)))
           /\ styles_out' = Append(styles_out, extract_font_metadata(font))
    /\ UNCHANGED <<fonts_in, argVars, runVars, rerunVars, optVars, grpVars,
                   loaded, poolVars>>

InitWeights ==
    /\ \E f \in WeightFonts : fonts_in = <<f>>
    /\ weight_names = <<>> /\ styles_out = <<>>
    /\ RunIdle

SpecWeights == InitWeights /\ [][CompareWeights]_vars

\* C28: the two weight-naming rules agree on the standard weights.  For a
\* weightClass in {100, 200, ..., 900} with the bold bit clear, the weight
\* that extract_font_metadata chooses is the name that weight_to_name
\* returns, the name of that key.
C28_WeightRulesAgree ==
    \A i \in DOMAIN styles_out :
        LET f == fonts_in[i]
        IN  (f.usWeightClass \in TableKeys /\ ~BitSet(f.fsSelection, 32))
                => /\ styles_out[i].weight = weight_names[i]
                   /\ weight_names[i] = NameOfKey(f.usWeightClass)

\* weight 300, which lies between the keys 250 and 350 of the table of
\* extract_font_metadata, was named Light by both rules
C28_Witness ==
    /\ styles_out # <<>>
    /\ fonts_in[1].usWeightClass = 300 /\ fonts_in[1].fsSelection = 0
    /\ styles_out[1].weight = Light
    /\ weight_names[1] = Light


====
